---- MODULE Spec2Model ----
(***************************************************************************)
(* Pendulum collision simulator (plain variant and scaling variant) of     *)
(* src/ComputerGraphicsSimulator/BallCollision.cpp: the software           *)
(* framebuffer, the rasterizer, the two-body pendulum physics, the scale   *)
(* animator and the frame loop.                                            *)
(*                                                                         *)
(* Numbers.  The program computes in 32-bit floats.  A float f is          *)
(* modelled by the integer nearest to f * ONE (fixed point, six decimal    *)
(* digits); every product and quotient is rounded to the nearest unit, as  *)
(* the float unit rounds to the nearest representable value.  TLC's        *)
(* integers are 32 bits wide, so products are formed in base-1000 limbs    *)
(* (WideMul) and quotients by binary long division (MulDivRem).  C++ int   *)
(* values (pixel coordinates, radii, colour channels) are plain integers.  *)
(***************************************************************************)
EXTENDS Integers, Sequences, FiniteSets, TLC

\* ------------------------------------------------------------------------
\* Fixed-point arithmetic standing for the float operations of the source
\* ------------------------------------------------------------------------

ONE == 1000 * 1000

Abs(a) == IF a < 0 THEN -a ELSE a

Sgn(a) == IF a < 0 THEN -1 ELSE IF a > 0 THEN 1 ELSE 0

Min(a, b) == IF a < b THEN a ELSE b

Max(a, b) == IF a > b THEN a ELSE b

\* F applied to the value of a: the operand of a C++ expression is evaluated
\* once, before the operation is carried out.
Apply1(F(_), a) == CHOOSE r \in { F(x) : x \in { a } } : TRUE

\* F applied to the values of a and b.
Apply2(F(_, _), a, b) == CHOOSE r \in { F(x, y) : x \in { a }, y \in { b } } : TRUE

\* The number with the base-1000 digit sums p0 .. p4 (p0 the lowest), as
\* <<hi, lo>> with value hi * 10^9 + lo and 0 <= lo < 10^9.
WideCarry(p0, p1, p2, p3, p4) ==
    LET k1 == p1 + (p0 \div 1000)
        k2 == p2 + (k1 \div 1000)
        k3 == p3 + (k2 \div 1000)
        k4 == p4 + (k3 \div 1000)
    IN  << k4 * 1000 + (k3 % 1000),
           (k2 % 1000) * ONE + (k1 % 1000) * 1000 + (p0 % 1000) >>

\* The product of the numbers with base-1000 digits a2 a1 a0 and b2 b1 b0.
WideDigits(a0, a1, a2, b0, b1, b2) ==
    WideCarry(a0 * b0, a1 * b0 + a0 * b1, a2 * b0 + a1 * b1 + a0 * b2,
              a2 * b1 + a1 * b2, a2 * b2)

\* The exact product a * b of two naturals below 2^31 as <<hi, lo>> with
\* a * b = hi * 10^9 + lo and 0 <= lo < 10^9.
WideMul(a, b) ==
    WideDigits(a % 1000, (a \div 1000) % 1000, a \div ONE,
               b % 1000, (b \div 1000) % 1000, b \div ONE)

WideAdd(p, q) ==
    Apply2(LAMBDA u, v : IF u[2] + v[2] >= 1000 * ONE
                         THEN << u[1] + v[1] + 1, u[2] + v[2] - 1000 * ONE >>
                         ELSE << u[1] + v[1], u[2] + v[2] >>, p, q)

WideLeq(p, q) ==
    Apply2(LAMBDA u, v : u[1] < v[1] \/ (u[1] = v[1] /\ u[2] <= v[2]), p, q)

\* The wide number p divided by ONE, rounded to the nearest unit.
WideRound(p) == Apply1(LAMBDA u : u[1] * 1000 + ((u[2] + 500000) \div ONE), p)

\* float * float: the product rounded to the nearest unit.
FMul(a, b) ==
    Apply2(LAMBDA x, y : Sgn(x) * Sgn(y) * WideRound(WideMul(Abs(x), Abs(y))), a, b)

\* <<q, r>> with r0 * m = q * b + r and 0 <= r < b, for 0 <= r0 < b < 2^30.
RECURSIVE MulDivRem(_, _, _)
MulDivRem(r0, m, b) ==
    IF m = 0 THEN << 0, 0 >>
    ELSE Apply1(LAMBDA h :
             LET q2 == 2 * h[1] + (IF 2 * h[2] >= b THEN 1 ELSE 0)
                 r2 == IF 2 * h[2] >= b THEN 2 * h[2] - b ELSE 2 * h[2]
             IN  IF m % 2 = 0 THEN << q2, r2 >>
                 ELSE IF r2 + r0 >= b THEN << q2 + 1, r2 + r0 - b >>
                      ELSE << q2, r2 + r0 >>,
             MulDivRem(r0, m \div 2, b))

\* round(a * m / b) for naturals a, m and 0 < b < 2^30.
MulDivNat(a, m, b) ==
    LET r == a % b
    IN  IF r = 0 THEN (a \div b) * m
        ELSE Apply1(LAMBDA f : (a \div b) * m + f[1] + (IF 2 * f[2] >= b THEN 1 ELSE 0),
                    MulDivRem(r, m, b))

\* float / float, b # 0: the quotient rounded to the nearest unit.
FDiv(a, b) ==
    Apply2(LAMBDA x, y : Sgn(x) * Sgn(y) * MulDivNat(Abs(x), ONE, Abs(y)), a, b)

\* The largest d in lo..hi with d * d <= w (w a wide number), by bisection.
RECURSIVE WideRoot(_, _, _)
WideRoot(w, lo, hi) ==
    IF lo >= hi THEN lo
    ELSE Apply1(LAMBDA mid :
             IF WideLeq(WideMul(mid, mid), w) THEN WideRoot(w, mid, hi)
             ELSE WideRoot(w, lo, mid - 1),
             lo + ((hi - lo + 1) \div 2))

\* (float)std::sqrt((double)x) for x >= 0.
FSqrt(x) == Apply1(LAMBDA v : WideRoot(WideMul(v, ONE), 0, Max(v, ONE)), x)

\* (float)std::sqrt((double)(dx * dx + dy * dy)).
Hypot(dx, dy) ==
    Apply2(LAMBDA x, y : Apply1(LAMBDA w : WideRoot(w, Max(x, y), x + y),
                                WideAdd(WideMul(x, x), WideMul(y, y))),
           Abs(dx), Abs(dy))

\* (int)f: conversion of a float to int truncates toward zero.
ToInt(f) == Apply1(LAMBDA x : Sgn(x) * (Abs(x) \div ONE), f)

\* (float)i of an int.
ToFloat(i) == i * ONE

PI_FX == 3141593

\* Division of a float by a small integer constant, rounded to nearest.
DivR(a, n) == Apply1(LAMBDA x : Sgn(x) * ((Abs(x) + (n \div 2)) \div n), a)

\* The angle x brought into [-pi, pi).
WrapAngle(x) == ((x + PI_FX) % (2 * PI_FX)) - PI_FX

\* The Taylor polynomial of sin up to x^13 in Horner form, x2 = x * x,
\* for |x| <= pi/2.
SinSeries(x, x2) ==
    LET p6 == ONE - DivR(x2, 156)
        p5 == ONE - DivR(FMul(x2, p6), 110)
        p4 == ONE - DivR(FMul(x2, p5), 72)
        p3 == ONE - DivR(FMul(x2, p4), 42)
        p2 == ONE - DivR(FMul(x2, p3), 20)
        p1 == ONE - DivR(FMul(x2, p2), 6)
    IN  FMul(x, p1)

\* The Taylor polynomial of cos up to x^14 in Horner form, x2 = x * x,
\* for |x| <= pi/2.
CosSeries(x2) ==
    LET p7 == ONE - DivR(x2, 182)
        p6 == ONE - DivR(FMul(x2, p7), 132)
        p5 == ONE - DivR(FMul(x2, p6), 90)
        p4 == ONE - DivR(FMul(x2, p5), 56)
        p3 == ONE - DivR(FMul(x2, p4), 30)
        p2 == ONE - DivR(FMul(x2, p3), 12)
    IN  ONE - DivR(FMul(x2, p2), 2)

\* A sine or cosine value kept inside [-1, 1].
ClampUnit(v) == Apply1(LAMBDA x : Max(-ONE, Min(ONE, x)), v)

\* The sine of an angle m in [-pi, pi).
RECURSIVE SinWrapped(_)
SinWrapped(m) ==
    IF m > PI_FX \div 2 THEN SinWrapped(PI_FX - m)
    ELSE IF m < -(PI_FX \div 2) THEN SinWrapped(-PI_FX - m)
    ELSE ClampUnit(SinSeries(m, FMul(m, m)))

\* The cosine of an angle m in [0, pi].
RECURSIVE CosWrapped(_)
CosWrapped(m) ==
    IF m > PI_FX \div 2 THEN -CosWrapped(PI_FX - m)
    ELSE ClampUnit(CosSeries(FMul(m, m)))

\* (float)std::sin((double)x).
Sin(x) == Apply1(LAMBDA a : SinWrapped(WrapAngle(a)), x)

\* (float)std::cos((double)x).
Cos(x) == Apply1(LAMBDA a : CosWrapped(Abs(WrapAngle(a))), x)

\* ------------------------------------------------------------------------
\* Program constants
\* ------------------------------------------------------------------------

WIN_W == 900

WIN_H == 700

Variants == {"plain", "scaling"}

\* ------------------------------------------------------------------------
\* State
\* ------------------------------------------------------------------------

VARIABLES
    variant,     \* which of the two programs of the file is running
    pixelBuf,    \* the RGBA pixel buffer (see Cell)
    prevBuf,     \* history: the buffer before the last buffer or draw call
    lastCall,    \* history: the last buffer or draw call, [op, args]
    plotted,     \* history: the setPixel calls that call issued, in order
    callCount,   \* number of buffer calls made so far
    balls,       \* balls[0], balls[1]
    globalPivotY,
    isOpen,      \* window.isOpen()
    pc,          \* where main's frame loop stands
    frameDt,     \* main's dt of the current frame
    subDt,       \* main's subDt of the current frame
    subStep,     \* main's counter i of the physics loop
    frames,      \* number of frames completed
    events,      \* number of events polled so far
    drawn,       \* the drawBall calls of the last frame, in order
    prevBalls,   \* history: balls before the last handler or sub-step
    tickInfo,    \* history: what the last physicsTick did
    lastEvent,   \* history: the event handled last in the current poll loop
    traffic      \* TrafficSim.cpp: light, car1, car2 of main; cycles is history

rasterVars == << pixelBuf, prevBuf, lastCall, plotted, callCount >>

simVars == << balls, globalPivotY, isOpen, pc, frameDt, subDt, subStep, frames,
              events, drawn, prevBalls, tickInfo, lastEvent >>

vars == << variant, traffic, rasterVars, simVars >>

\* ------------------------------------------------------------------------
\* Pixel buffer.  The WIN_W * WIN_H * 4 bytes are kept as the value bg that
\* every cell not listed holds, and cells, the cells that differ from bg.
\* ------------------------------------------------------------------------

InGrid(x, y) == ~(x < 0 \/ y < 0 \/ x >= WIN_W \/ y >= WIN_H)

\* static sf::Uint8 pixelBuf[...]: a static array starts zeroed.
ZeroBuf == [bg |-> << 0, 0, 0, 0 >>, cells |-> [c \in {} |-> << 0, 0, 0, 0 >>]]

\* The four bytes of cell (x, y).
Cell(buf, x, y) ==
    IF << x, y >> \in DOMAIN buf.cells THEN buf.cells[<< x, y >>] ELSE buf.bg

PutCell(buf, x, y, v) ==
    LET keep == (DOMAIN buf.cells) \ {<< x, y >>}
        dom  == IF v = buf.bg THEN keep ELSE keep \cup {<< x, y >>}
    IN  [buf EXCEPT !.cells =
            [c \in dom |-> IF c = << x, y >> THEN v ELSE buf.cells[c]]]

\* A mutant of clearBuffer: the loop stops one cell short, so the last cell
\* keeps the zero bytes the static array starts with.
clearBufferMutStopsShort(r, g, b) ==
    [bg |-> << r, g, b, 255 >>,
     cells |-> << WIN_W - 1, WIN_H - 1 >> :> << 0, 0, 0, 0 >>]

clearBuffer(r, g, b) ==
    [bg |-> << r, g, b, 255 >>, cells |-> [c \in {} |-> << 0, 0, 0, 0 >>]]

\* (sf::Uint8)f: the float is truncated; the store keeps the low 8 bits.
ToUint8(f) == ToInt(f) % 256

\* A mutant of the blend: fb is the destination's alpha, not multiplied by
\* 1 - fa.
BlendMutNoComplement(dst, r, g, b, a) ==
    IF a = 255 THEN << r, g, b, 255 >>
    ELSE LET fa == FDiv(ToFloat(a), ToFloat(255))
             fb == FDiv(ToFloat(dst[4]), ToFloat(255))
         IN  << ToUint8(FMul(ToFloat(r), fa) + FMul(ToFloat(dst[1]), fb)),
                ToUint8(FMul(ToFloat(g), fa) + FMul(ToFloat(dst[2]), fb)),
                ToUint8(FMul(ToFloat(b), fa) + FMul(ToFloat(dst[3]), fb)),
                ToUint8(FMul(fa + fb, ToFloat(255))) >>

\* The bytes setPixel stores into a cell holding dst.
Blend(dst, r, g, b, a) ==
    IF a = 255 THEN << r, g, b, 255 >>
    ELSE LET fa == FDiv(ToFloat(a), ToFloat(255))
             fb == FMul(FDiv(ToFloat(dst[4]), ToFloat(255)), ONE - fa)
         IN  << ToUint8(FMul(ToFloat(r), fa) + FMul(ToFloat(dst[1]), fb)),
                ToUint8(FMul(ToFloat(g), fa) + FMul(ToFloat(dst[2]), fb)),
                ToUint8(FMul(ToFloat(b), fa) + FMul(ToFloat(dst[3]), fb)),
                ToUint8(FMul(fa + fb, ToFloat(255))) >>

\* A mutant of setPixel: the bounds test misses the right and bottom edges,
\* so the write lands in the cell the flat index wraps to.
setPixelMutNoUpperBound(buf, x, y, r, g, b, a) ==
    IF x < 0 \/ y < 0 THEN buf
    ELSE LET idx == y * WIN_W + x
             wx  == idx % WIN_W
             wy  == (idx \div WIN_W) % WIN_H
         IN  PutCell(buf, wx, wy, Blend(Cell(buf, wx, wy), r, g, b, a))

setPixel(buf, x, y, r, g, b, a) ==
    IF ~InGrid(x, y) THEN buf
    ELSE PutCell(buf, x, y, Blend(Cell(buf, x, y), r, g, b, a))

\* The bytes of a cell holding dst after the first n calls of ks, all of
\* which address that cell.
RECURSIVE BlendAll(_, _, _)
BlendAll(dst, ks, n) ==
    IF n = 0 THEN dst
    ELSE LET prev == BlendAll(dst, ks, n - 1)
         IN  IF Len(prev) = 4   \* the destination pixel is read before it is blended
             THEN Blend(prev, ks[n][3], ks[n][4], ks[n][5], ks[n][6])
             ELSE prev

\* The buffer after the setPixel calls of the sequence calls, in order; a
\* call is << x, y, r, g, b, a >>.  Calls outside the grid return at the
\* bounds test; each cell inside takes the calls that address it, in order.
ApplyCalls(buf, calls) ==
    LET hit == { << calls[i][1], calls[i][2] >> : i \in 1..Len(calls) }
        pts == { c \in hit : InGrid(c[1], c[2]) }
        at(c) == SelectSeq(calls, LAMBDA k : k[1] = c[1] /\ k[2] = c[2])
        new == [c \in pts |-> BlendAll(Cell(buf, c[1], c[2]), at(c), Len(at(c)))]
        val(c) == IF c \in pts THEN new[c] ELSE buf.cells[c]
        dom == { c \in (DOMAIN buf.cells) \cup pts : val(c) # buf.bg }
    IN  [buf EXCEPT !.cells = [c \in dom |-> val(c)]]

\* ------------------------------------------------------------------------
\* Rasterizer.  Every routine is given as the sequence of setPixel calls it
\* issues, in order; the buffer after it is ApplyCalls of that sequence.
\* ------------------------------------------------------------------------

\* The call setPixel(pt.x, pt.y, c, a).
PixelCall(pt, c, a) == << pt[1], pt[2], c[1], c[2], c[3], a >>

\* A mutant of the Bresenham loop: the end test runs before the write, so
\* the end point is never written.
RECURSIVE BresenhamLoopMutBreakFirst(_, _, _, _, _, _, _, _, _)
BresenhamLoopMutBreakFirst(x0, y0, x1, y1, dx, dy, sx, sy, err) ==
    IF x0 = x1 /\ y0 = y1 THEN << >>
    ELSE LET e2   == 2 * err
             errX == IF e2 >= dy THEN err + dy ELSE err
             nx   == IF e2 >= dy THEN x0 + sx ELSE x0
             errY == IF e2 <= dx THEN errX + dx ELSE errX
             ny   == IF e2 <= dx THEN y0 + sy ELSE y0
         IN  << << x0, y0 >> >>
                 \o BresenhamLoopMutBreakFirst(nx, ny, x1, y1, dx, dy, sx, sy, errY)

\* The for (;;) loop of bresenhamLine: the points written from (x0, y0) on.
RECURSIVE BresenhamLoop(_, _, _, _, _, _, _, _, _)
BresenhamLoop(x0, y0, x1, y1, dx, dy, sx, sy, err) ==
    IF x0 = x1 /\ y0 = y1 THEN << << x0, y0 >> >>
    ELSE LET e2   == 2 * err
             errX == IF e2 >= dy THEN err + dy ELSE err
             nx   == IF e2 >= dy THEN x0 + sx ELSE x0
             errY == IF e2 <= dx THEN errX + dx ELSE errX
             ny   == IF e2 <= dx THEN y0 + sy ELSE y0
         IN  << << x0, y0 >> >>
                 \o BresenhamLoop(nx, ny, x1, y1, dx, dy, sx, sy, errY)

\* The points bresenhamLine writes, in order.
bresenhamLine(x0, y0, x1, y1) ==
    LET dx == Abs(x1 - x0)
        dy == -Abs(y1 - y0)
        sx == IF x0 < x1 THEN 1 ELSE -1
        sy == IF y0 < y1 THEN 1 ELSE -1
    IN  BresenhamLoop(x0, y0, x1, y1, dx, dy, sx, sy, dx + dy)

BresenhamCalls(x0, y0, x1, y1, c, a) ==
    LET pts == bresenhamLine(x0, y0, x1, y1)
    IN  [i \in 1..Len(pts) |-> PixelCall(pts[i], c, a)]

\* A mutant of the loop of thickLine: it runs while i < half.
RECURSIVE ThickOffsetsFromMutStrict(_, _)
ThickOffsetsFromMutStrict(i, half) ==
    IF ~(i < half) THEN << >>
    ELSE << i >> \o ThickOffsetsFromMutStrict(i + ONE, half)

\* for (float i = ...; i <= half; i += 1.0f): the values of i from i on.
RECURSIVE ThickOffsetsFrom(_, _)
ThickOffsetsFrom(i, half) ==
    IF ~(i <= half) THEN << >>
    ELSE << i >> \o ThickOffsetsFrom(i + ONE, half)

\* The values i takes in thickLine: from -half on, half = (thickness - 1) * 0.5.
ThickOffsets(thickness) ==
    Apply1(LAMBDA half : ThickOffsetsFrom(-half, half), FMul(ToFloat(thickness - 1), 500000))

\* len of thickLine.
ThickLen(x0, y0, x1, y1) == Hypot(ToFloat(x1 - x0), ToFloat(y1 - y0))

\* The perpendicular unit vector << px, py >> of thickLine (len not 0).
ThickPerp(x0, y0, x1, y1) ==
    << FDiv(-ToFloat(y1 - y0), ThickLen(x0, y0, x1, y1)),
       FDiv(ToFloat(x1 - x0), ThickLen(x0, y0, x1, y1)) >>

\* The arguments x0, y0, x1, y1 of the bresenhamLine call for offset i.
ThickPass(x0, y0, x1, y1, p, i) ==
    << ToInt(ToFloat(x0) + FMul(p[1], i)), ToInt(ToFloat(y0) + FMul(p[2], i)),
       ToInt(ToFloat(x1) + FMul(p[1], i)), ToInt(ToFloat(y1) + FMul(p[2], i)) >>

\* The bresenhamLine calls of thickLine, in order (none when len < 0.001).
thickLinePasses(x0, y0, x1, y1, thickness) ==
    IF ThickLen(x0, y0, x1, y1) < 1000 THEN << >>
    ELSE LET offs == ThickOffsets(thickness)
             p    == ThickPerp(x0, y0, x1, y1)
         IN  [k \in 1..Len(offs) |-> ThickPass(x0, y0, x1, y1, p, offs[k])]

\* The setPixel calls of the bresenhamLine calls ps from the k-th on.
RECURSIVE PassCalls(_, _, _, _)
PassCalls(ps, k, c, a) ==
    IF k > Len(ps) THEN << >>
    ELSE BresenhamCalls(ps[k][1], ps[k][2], ps[k][3], ps[k][4], c, a)
             \o PassCalls(ps, k + 1, c, a)

\* The setPixel calls of thickLine, in order.
thickLine(x0, y0, x1, y1, thickness, c, a) ==
    IF ThickLen(x0, y0, x1, y1) < 1000 THEN << PixelCall(<< x0, y0 >>, c, a) >>
    ELSE PassCalls(thickLinePasses(x0, y0, x1, y1, thickness), 1, c, a)

\* The (x, y) pairs the while (x >= y) loop of midpointCircle visits.
RECURSIVE MidpointLoop(_, _, _)
MidpointLoop(x, y, p) ==
    IF ~(x >= y) THEN << >>
    ELSE << << x, y >> >>
            \o (IF p < 0 THEN MidpointLoop(x, y + 1, p + 2 * (y + 1) + 1)
                ELSE MidpointLoop(x - 1, y + 1, p + 2 * ((y + 1) - (x - 1)) + 1))

\* A mutant of the eight writes: the sixth repeats the fifth.
OctantPlotsMutRepeated(cx, cy, x, y) ==
    << << cx + x, cy + y >>, << cx - x, cy + y >>,
       << cx + x, cy - y >>, << cx - x, cy - y >>,
       << cx + y, cy + x >>, << cx + y, cy + x >>,
       << cx + y, cy - x >>, << cx - y, cy - x >> >>

\* The eight setPixel targets of one loop iteration of midpointCircle.
OctantPlots(cx, cy, x, y) ==
    << << cx + x, cy + y >>, << cx - x, cy + y >>,
       << cx + x, cy - y >>, << cx - x, cy - y >>,
       << cx + y, cy + x >>, << cx - y, cy + x >>,
       << cx + y, cy - x >>, << cx - y, cy - x >> >>

\* The points midpointCircle writes, in order.
midpointCircle(cx, cy, radius) ==
    LET loop == MidpointLoop(radius, 0, 1 - radius)
    IN  [i \in 1..(8 * Len(loop)) |->
            OctantPlots(cx, cy, loop[((i - 1) \div 8) + 1][1],
                        loop[((i - 1) \div 8) + 1][2])[((i - 1) % 8) + 1]]

MidpointCalls(cx, cy, radius, c, a) ==
    LET pts == midpointCircle(cx, cy, radius)
    IN  [i \in 1..Len(pts) |-> PixelCall(pts[i], c, a)]

\* static const float LIGHT_LX = -0.5f / 0.8602f, LIGHT_LY = -0.7f / 0.8602f
LIGHT_LX == FDiv(-500000, 860200)

LIGHT_LY == FDiv(-700000, 860200)

\* One colour channel of a shaded pixel: base colour b, glow colour g.
ShadeChannel(b, g, shade, rim) ==
    ToUint8(Min(FMul(ToFloat(b), shade) + FMul(FMul(ToFloat(g), rim), 300000),
                ToFloat(255)))

\* The record of a shaded pixel: the intermediate terms, and out, the
\* colour handed to setPixel.
ShadeColour(dist, nz, diff, spec, shade, rim, base, glow) ==
    [dist |-> dist, nz |-> nz, diff |-> diff, spec |-> spec,
     shade |-> shade, rim |-> rim,
     out |-> << ShadeChannel(base[1], glow[1], shade, rim),
                ShadeChannel(base[2], glow[2], shade, rim),
                ShadeChannel(base[3], glow[3], shade, rim) >>]

\* if (f < 0.0f) f = 0.0f;
ClampLow(f) == IF f < 0 THEN 0 ELSE f

Square(f) == FMul(f, f)

\* The specular term: clamped at 0 and raised to the 8th power.
ShadeSpecular(nz, diff) ==
    Square(Square(Square(ClampLow(FMul(nz, 900000) + FMul(diff, 300000)))))

\* A mutant of the combination: the shade is not capped at 1.4.
ShadeCombineMutNoCap(dist, nz, diff, spec, base, glow) ==
    ShadeColour(dist, nz, diff, spec,
                120000 + FMul(diff, 700000) + FMul(spec, 500000),
                FMul(dist, dist), base, glow)

\* The shade, capped at 1.4, and the rim term.
ShadeCombine(dist, nz, diff, spec, base, glow) ==
    ShadeColour(dist, nz, diff, spec,
                Min(120000 + FMul(diff, 700000) + FMul(spec, 500000), 1400000),
                FMul(dist, dist), base, glow)

\* The specular term for the Lambert term diff, and what follows.
ShadePhong(dist, nz, diff, base, glow) ==
    ShadeCombine(dist, nz, diff, ShadeSpecular(nz, diff), base, glow)

\* A mutant of the Lambert term: it is not clamped at 0.
ShadeLambertMutNoClamp(dist, nx, ny, nz, base, glow) ==
    ShadePhong(dist, nz,
               FMul(nx, LIGHT_LX) + FMul(ny, LIGHT_LY) + FMul(nz, 700000),
               base, glow)

\* The Lambert term diff for the normal << nx, ny, nz >>, and what follows.
ShadeLambert(dist, nx, ny, nz, base, glow) ==
    ShadePhong(dist, nz,
               ClampLow(FMul(nx, LIGHT_LX) + FMul(ny, LIGHT_LY) + FMul(nz, 700000)),
               base, glow)

\* nz = (nz2 > 0.0f) ? sqrt(nz2) : 0.0f;
NormalZ(nz2) == IF nz2 > 0 THEN FSqrt(nz2) ELSE 0

\* The sphere normal of a pixel dist from the centre, and what follows.
ShadeNormal(dist, nx, ny, base, glow) ==
    ShadeLambert(dist, nx, ny, NormalZ(ONE - FMul(nx, nx) - FMul(ny, ny)), base, glow)

\* The shading of one pixel of scanlineFillCircle: dx, dy the float offsets
\* from the centre, invR = 1 / radius.
ShadePixel(dx, dy, invR, base, glow) ==
    ShadeNormal(FMul(Hypot(dx, dy), invR), FMul(dx, invR), FMul(dy, invR), base, glow)

\* The chord of scanline y: << xLeft, xRight >>, or << 1, 0 >> when the
\* scanline is skipped (disc < 0).
Chord(cx, cy, radius, y) ==
    LET dy   == ToFloat(y - cy)
        disc == ToFloat(radius * radius) - FMul(dy, dy)
        sqD  == FSqrt(disc)
    IN  IF disc < 0 THEN << 1, 0 >>
        ELSE << ToInt(ToFloat(cx) - sqD), ToInt(ToFloat(cx) + sqD) >>

\* The calls of the inner loop of scanlineFillCircle from column x on.  With
\* radius = 0 (reached in the plain variant only) invR is infinite, every
\* term is NaN and the cast to sf::Uint8 is undefined: ub is the byte the
\* build stores.
RECURSIVE FillRowFrom(_, _, _, _, _, _, _, _, _)
FillRowFrom(x, xRight, y, cx, cy, radius, base, glow, ub) ==
    IF x > xRight THEN << >>
    ELSE LET c == IF radius = 0 THEN << ub, ub, ub >>
                  ELSE ShadePixel(ToFloat(x - cx), ToFloat(y - cy),
                                  FDiv(ONE, ToFloat(radius)), base, glow).out
         IN  << PixelCall(<< x, y >>, c, 255) >>
                 \o FillRowFrom(x + 1, xRight, y, cx, cy, radius, base, glow, ub)

RECURSIVE FillRowsFrom(_, _, _, _, _, _, _)
FillRowsFrom(y, cx, cy, radius, base, glow, ub) ==
    IF y > cy + radius THEN << >>
    ELSE LET ch == Chord(cx, cy, radius, y)
         IN  FillRowFrom(ch[1], ch[2], y, cx, cy, radius, base, glow, ub)
                 \o FillRowsFrom(y + 1, cx, cy, radius, base, glow, ub)

\* scanlineFillCircle of variant v: the scaling variant returns at once for
\* radius < 1, the plain variant has no such test.
scanlineFillCircle(v, cx, cy, radius, base, glow, ub) ==
    IF v = "scaling" /\ radius < 1 THEN << >>
    ELSE FillRowsFrom(cy - radius, cx, cy, radius, base, glow, ub)

\* The calls of the inner loop of scanlineGlowRing from column x on.
RECURSIVE GlowRowFrom(_, _, _, _, _, _, _, _)
GlowRowFrom(x, xRight, y, cx, cy, radius, c, ub) ==
    IF x > xRight THEN << >>
    ELSE LET dist  == FMul(Hypot(ToFloat(x - cx), ToFloat(y - cy)),
                           FDiv(ONE, ToFloat(radius)))
             alpha == FMul(ONE - dist, ToFloat(70))
             call  == IF radius = 0 THEN << PixelCall(<< x, y >>, c, ub) >>
                      ELSE IF alpha < ONE THEN << >>
                      ELSE << PixelCall(<< x, y >>, c, ToUint8(alpha)) >>
         IN  call \o GlowRowFrom(x + 1, xRight, y, cx, cy, radius, c, ub)

RECURSIVE GlowRowsFrom(_, _, _, _, _, _)
GlowRowsFrom(y, cx, cy, radius, c, ub) ==
    IF y > cy + radius THEN << >>
    ELSE LET ch == Chord(cx, cy, radius, y)
         IN  GlowRowFrom(ch[1], ch[2], y, cx, cy, radius, c, ub)
                 \o GlowRowsFrom(y + 1, cx, cy, radius, c, ub)

\* scanlineGlowRing of variant v.
scanlineGlowRing(v, cx, cy, radius, c, ub) ==
    IF v = "scaling" /\ radius < 1 THEN << >>
    ELSE GlowRowsFrom(cy - radius, cx, cy, radius, c, ub)

\* ------------------------------------------------------------------------
\* The two pendulums.  A Ball is a record of the struct's fields; radius is
\* the field radius of the plain program and baseRadius of the scaling one,
\* and the plain program has no scaleFactor and scaleTarget (they stay 0).
\* ------------------------------------------------------------------------

GRAVITY == 980 * ONE

DAMPING == 999600

SUB_STEPS == 8

BALL_RADIUS == 28

SCALE_MIN == 400000

SCALE_MAX == 2600000

SCALE_LERP == 4 * ONE

\* balls[0] and balls[1] holding a and b.
Pair(a, b) == (0 :> a) @@ (1 :> b)

\* Static storage before resetSimulation has run is zero-filled.
ZeroBall ==
    [pivotX |-> 0, pivotY |-> 0, length |-> 0, angle |-> 0, angularVel |-> 0,
     radius |-> 0, scaleFactor |-> 0, scaleTarget |-> 0, x |-> 0, y |-> 0,
     base |-> << 0, 0, 0 >>, glow |-> << 0, 0, 0 >>]

updatePosition(b) ==
    Apply1(LAMBDA c : [c EXCEPT !.x = c.pivotX + FMul(c.length, Sin(c.angle)),
                                !.y = c.pivotY + FMul(c.length, Cos(c.angle))], b)

\* A mutant of scaledRadius: the result is not floored at 1.
scaledRadiusMutNoFloor(b) == ToInt(FMul(ToFloat(b.radius), b.scaleFactor))

\* A mutant of scaledRadius: the product is rounded to the nearest integer.
scaledRadiusMutRounds(b) ==
    Apply1(LAMBDA r : IF r < 1 THEN 1 ELSE r,
           ToInt(FMul(ToFloat(b.radius), b.scaleFactor) + 500000))

scaledRadius(b) ==
    Apply1(LAMBDA r : IF r < 1 THEN 1 ELSE r, ToInt(FMul(ToFloat(b.radius), b.scaleFactor)))

\* The radius the collision test uses for b.
CollisionRadius(v, b) == IF v = "plain" THEN b.radius ELSE scaledRadius(b)

\* A mutant of updateScale: the step is not scaled by dt.
updateScaleMutNoDt(b, dt) ==
    LET diff == b.scaleTarget - b.scaleFactor
        move == FMul(diff, SCALE_LERP)
    IN  [b EXCEPT !.scaleFactor = @ + move]

\* A mutant of updateScale: the scaled radius is stored as the base radius.
updateScaleMutBakesRadius(b, dt) ==
    LET diff == b.scaleTarget - b.scaleFactor
        move == FMul(FMul(diff, SCALE_LERP), dt)
        c    == IF (diff > 0 /\ move > diff) \/ (diff < 0 /\ move < diff)
                THEN [b EXCEPT !.scaleFactor = b.scaleTarget]
                ELSE [b EXCEPT !.scaleFactor = @ + move]
    IN  [c EXCEPT !.radius = ToInt(FMul(ToFloat(c.radius), c.scaleFactor))]

\* A mutant of updateScale: the move is added whether it overshoots or not.
updateScaleMutNoSnap(b, dt) ==
    LET diff == b.scaleTarget - b.scaleFactor
        move == FMul(FMul(diff, SCALE_LERP), dt)
    IN  [b EXCEPT !.scaleFactor = @ + move]

updateScale(b, dt) ==
    LET diff == b.scaleTarget - b.scaleFactor
        move == FMul(FMul(diff, SCALE_LERP), dt)
    IN  IF (diff > 0 /\ move > diff) \/ (diff < 0 /\ move < diff)
        THEN [b EXCEPT !.scaleFactor = b.scaleTarget]
        ELSE [b EXCEPT !.scaleFactor = @ + move]

\* randomClampedScale when randFloat() returns rf.
randomClampedScale(rf) ==
    LET r == SCALE_MIN + FMul(rf, SCALE_MAX - SCALE_MIN)
    IN  IF r < SCALE_MIN THEN SCALE_MIN
        ELSE IF r > SCALE_MAX THEN SCALE_MAX
        ELSE r

\* randomiseScales when the two randFloat() calls return r0 and r1.
randomiseScales(bs, r0, r1) ==
    Pair([bs[0] EXCEPT !.scaleTarget = randomClampedScale(r0)],
         [bs[1] EXCEPT !.scaleTarget = randomClampedScale(r1)])

\* The assignments resetSimulation makes to one ball, angularVel getting vel.
ResetBall(b, v, pivotX, pivotY, length, angle, vel, base, glow) ==
    LET c == [b EXCEPT !.pivotX = pivotX, !.pivotY = pivotY, !.length = length,
                       !.angle = angle, !.angularVel = vel,
                       !.radius = BALL_RADIUS, !.base = base, !.glow = glow]
        d == IF v = "scaling"
             THEN [c EXCEPT !.scaleFactor = ONE, !.scaleTarget = ONE]
             ELSE c
    IN  updatePosition(d)

\* A mutant of resetSimulation: angularVel is not assigned.
resetSimulationMutKeepVel(v, bs) ==
    LET gy == 80 * ONE
        cx == FMul(ToFloat(WIN_W), 500000)
    IN  [globalPivotY |-> gy,
         balls |-> Pair(ResetBall(bs[0], v, cx - 60 * ONE, gy, 220 * ONE, -650000,
                                  bs[0].angularVel, << 220, 80, 50 >>, << 255, 120, 60 >>),
                        ResetBall(bs[1], v, cx + 60 * ONE, gy, 240 * ONE, 600000,
                                  bs[1].angularVel, << 50, 130, 220 >>, << 80, 180, 255 >>))]

\* globalPivotY and balls after resetSimulation() called with balls = bs.
resetSimulation(v, bs) ==
    LET gy == 80 * ONE
        cx == FMul(ToFloat(WIN_W), 500000)
    IN  [globalPivotY |-> gy,
         balls |-> Pair(ResetBall(bs[0], v, cx - 60 * ONE, gy, 220 * ONE, -650000,
                                  0, << 220, 80, 50 >>, << 255, 120, 60 >>),
                        ResetBall(bs[1], v, cx + 60 * ONE, gy, 240 * ONE, 600000,
                                  0, << 50, 130, 220 >>, << 80, 180, 255 >>))]

\* Step 1 of physicsTick for one ball, with the sine s in the torque and
\* the factor damp applied to the velocity.
IntegrateWith(b, dt, s, damp) ==
    LET alpha == -FMul(FDiv(GRAVITY, b.length), s)
        w1    == b.angularVel + FMul(alpha, dt)
    IN  Apply1(LAMBDA w2 : updatePosition([b EXCEPT !.angularVel = w2,
                                                    !.angle = b.angle + FMul(w2, dt)]),
               FMul(w1, damp))

\* A mutant of the integration: the torque takes the cosine of the angle.
IntegrateMutCosTorque(b, dt) == IntegrateWith(b, dt, Cos(b.angle), DAMPING)

\* A mutant of the integration: the velocity is divided by DAMPING.
IntegrateMutGain(b, dt) == IntegrateWith(b, dt, Sin(b.angle), FDiv(ONE, DAMPING))

Integrate(b, dt) == IntegrateWith(b, dt, Sin(b.angle), DAMPING)

\* if (std::abs(c) < 0.01f) c = (c >= 0.0f) ? 0.01f : -0.01f;
ClampCos(c) == IF Abs(c) < 10000 THEN (IF c >= 0 THEN 10000 ELSE -10000) ELSE c

\* A mutant of the collision response: the impulse is given to both balls
\* with the sign it has for ball A.
CollideResponseMutSameSign(A, B, push, relVn, nx, ny, cA, sA, cB, sB) ==
    LET dOmA == -FDiv(FMul(relVn, FMul(nx, cA) + FMul(ny, -sA)), A.length)
        dOmB == -FDiv(FMul(relVn, FMul(nx, cB) + FMul(ny, -sB)), B.length)
    IN  Pair(updatePosition([A EXCEPT
                 !.angularVel = A.angularVel + dOmA,
                 !.angle = A.angle - FDiv(push, FMul(A.length, ClampCos(cA)))]),
             updatePosition([B EXCEPT
                 !.angularVel = B.angularVel + dOmB,
                 !.angle = B.angle + FDiv(push, FMul(B.length, ClampCos(cB)))]))

\* A mutant of the collision response: the tips are not recomputed.
CollideResponseMutStaleTip(A, B, push, relVn, nx, ny, cA, sA, cB, sB) ==
    LET dOmA == -FDiv(FMul(relVn, FMul(nx, cA) + FMul(ny, -sA)), A.length)
        dOmB == FDiv(FMul(relVn, FMul(nx, cB) + FMul(ny, -sB)), B.length)
    IN  Pair([A EXCEPT
                 !.angularVel = A.angularVel + dOmA,
                 !.angle = A.angle - FDiv(push, FMul(A.length, ClampCos(cA)))],
             [B EXCEPT
                 !.angularVel = B.angularVel + dOmB,
                 !.angle = B.angle + FDiv(push, FMul(B.length, ClampCos(cB)))])

\* The impulse and the positional correction of physicsTick, once
\* relVn > 0.0f has passed: A and B with the new angularVel and angle.
CollideResponse(A, B, push, relVn, nx, ny, cA, sA, cB, sB) ==
    LET dOmA == -FDiv(FMul(relVn, FMul(nx, cA) + FMul(ny, -sA)), A.length)
        dOmB == FDiv(FMul(relVn, FMul(nx, cB) + FMul(ny, -sB)), B.length)
    IN  Pair(updatePosition([A EXCEPT
                 !.angularVel = A.angularVel + dOmA,
                 !.angle = A.angle - FDiv(push, FMul(A.length, ClampCos(cA)))]),
             updatePosition([B EXCEPT
                 !.angularVel = B.angularVel + dOmB,
                 !.angle = B.angle + FDiv(push, FMul(B.length, ClampCos(cB)))]))

\* physicsTick from `if (relVn > 0.0f)` on.
CollideApproach(A, B, minD, push, relVn, nx, ny, cA, sA, cB, sB) ==
    [balls   |-> IF relVn > 0
                 THEN CollideResponse(A, B, push, relVn, nx, ny, cA, sA, cB, sB)
                 ELSE Pair(A, B),
     overlap |-> TRUE,
     impulse |-> relVn > 0,
     minD    |-> minD]

\* physicsTick inside `if (dist < minD && dist > 0.001f)`, with the normal
\* << nx, ny >> and the cosines and sines of the two angles.
CollideOverlap(A, B, minD, dist, nx, ny, cA, sA, cB, sB) ==
    LET vAx == FMul(FMul(A.angularVel, A.length), cA)
        vAy == FMul(FMul(-A.angularVel, A.length), sA)
        vBx == FMul(FMul(B.angularVel, B.length), cB)
        vBy == FMul(FMul(-B.angularVel, B.length), sB)
    IN  CollideApproach(A, B, minD, FMul(FMul(minD - dist, 500000), nx),
                        FMul(vAx - vBx, nx) + FMul(vAy - vBy, ny),
                        nx, ny, cA, sA, cB, sB)

\* A mutant of the collision test: dist > 0.001f is not tested.
CollideAtMutNoEps(A, B, minD, dist) ==
    IF dist < minD
    THEN CollideOverlap(A, B, minD, dist,
                        FDiv(B.x - A.x, dist), FDiv(B.y - A.y, dist),
                        Cos(A.angle), Sin(A.angle), Cos(B.angle), Sin(B.angle))
    ELSE [balls |-> Pair(A, B), overlap |-> FALSE, impulse |-> FALSE, minD |-> minD]

\* Step 2 of physicsTick on the integrated balls A and B, dist apart.
\* overlap: the test dist < minD && dist > 0.001f passed; impulse: the test
\* relVn > 0.0f passed too.
CollideAt(A, B, minD, dist) ==
    IF dist < minD /\ dist > 1000
    THEN CollideOverlap(A, B, minD, dist,
                        FDiv(B.x - A.x, dist), FDiv(B.y - A.y, dist),
                        Cos(A.angle), Sin(A.angle), Cos(B.angle), Sin(B.angle))
    ELSE [balls |-> Pair(A, B), overlap |-> FALSE, impulse |-> FALSE, minD |-> minD]

Collide(v, bs) ==
    Apply2(LAMBDA minD, dist : CollideAt(bs[0], bs[1], minD, dist),
           ToFloat(CollisionRadius(v, bs[0]) + CollisionRadius(v, bs[1])),
           Hypot(bs[1].x - bs[0].x, bs[1].y - bs[0].y))

physicsTick(v, bs, dt) ==
    Apply1(LAMBDA moved : Collide(v, moved), Pair(Integrate(bs[0], dt), Integrate(bs[1], dt)))

\* drawBall(balls[i]) in program v: the centre and the radii it passes to
\* scanlineGlowRing, scanlineFillCircle and the two midpointCircle calls.
drawBall(v, b, i) ==
    Apply1(LAMBDA sr : [ball      |-> i,
                        cx        |-> ToInt(b.x),
                        cy        |-> ToInt(b.y),
                        glow      |-> sr + 6,
                        fill      |-> sr,
                        outline   |-> sr,
                        highlight |-> ToInt(FMul(ToFloat(sr), 550000))],
           IF v = "plain" THEN b.radius ELSE scaledRadius(b))

\* A mutant of the draw order: the ball with the larger x is drawn first.
drawBallsMutFrontFirst(v, bs) ==
    IF bs[0].x < bs[1].x THEN << drawBall(v, bs[1], 1), drawBall(v, bs[0], 0) >>
    ELSE << drawBall(v, bs[0], 0), drawBall(v, bs[1], 1) >>

\* The drawBall calls of a frame, back to front by x.
drawBalls(v, bs) ==
    IF bs[0].x < bs[1].x THEN << drawBall(v, bs[0], 0), drawBall(v, bs[1], 1) >>
    ELSE << drawBall(v, bs[1], 1), drawBall(v, bs[0], 0) >>

\* A call main makes in the drawing part of a frame.
FrameCall(name, arg) == [op |-> name, arg |-> arg]

\* The calls of main from clearBuffer to window.display(), in order, with
\* the drawBall calls ds.
frameCalls(ds) ==
    << FrameCall("clearBuffer", << 10, 10, 15 >>), FrameCall("drawGrid", << >>),
       FrameCall("drawPivots", << >>), FrameCall("drawStrings", << >>) >>
    \o [k \in 1..Len(ds) |-> FrameCall("drawBall", << ds[k].ball >>)]
    \o << FrameCall("display", << >>) >>

\* The distance between the two tips.
TipDistance(bs) == Hypot(bs[1].x - bs[0].x, bs[1].y - bs[0].y)

\* ------------------------------------------------------------------------
\* main
\* ------------------------------------------------------------------------

ZeroBalls == Pair(ZeroBall, ZeroBall)

NoEvent == [type |-> "none", reset |-> FALSE, randomised |-> FALSE]

NoTick ==
    [n |-> 0, overlap |-> FALSE, impulse |-> FALSE, minD |-> 0, hits |-> 0, rest |-> {}]

\* tickInfo after a physicsTick that returned r: n sub-steps so far, hits of
\* them with an impulse; rest, the balls that started with angle and
\* angularVel 0, stays.
Ticked(r) ==
    [tickInfo EXCEPT !.n = @ + 1, !.overlap = r.overlap, !.impulse = r.impulse,
                     !.minD = r.minD, !.hits = @ + (IF r.impulse THEN 1 ELSE 0)]

\* The balls and the record of the call after a physicsTick that returned r.
TickTaken(r) ==
    /\ balls' = r.balls
    /\ tickInfo' = Ticked(r)

\* ------------------------------------------------------------------------
\* TrafficSim.cpp: the traffic light and the two cars
\* ------------------------------------------------------------------------

TRAFFIC_WIN_W == 1000

CAR_SPEED_MAX == 200 * ONE

CAR_ACCEL == 150 * ONE

CAR_BRAKE == 250 * ONE

STOP_LINE_X == 750

LightStates == { "LIGHT_GREEN", "LIGHT_YELLOW", "LIGHT_RED" }

\* A mutant of cycle: YELLOW goes back to GREEN.
cycleMutSkipsRed(state) ==
    IF state = "LIGHT_GREEN" THEN "LIGHT_YELLOW"
    ELSE IF state = "LIGHT_YELLOW" THEN "LIGHT_GREEN"
    ELSE "LIGHT_GREEN"

\* TrafficLight::cycle: the state it assigns when the light is in state.
cycle(state) ==
    IF state = "LIGHT_GREEN" THEN "LIGHT_YELLOW"
    ELSE IF state = "LIGHT_YELLOW" THEN "LIGHT_RED"
    ELSE "LIGHT_GREEN"

\* Car(): x(100), y(400), velocity(CAR_SPEED_MAX), width(150), height(70).
NewCar ==
    [x |-> 100 * ONE, y |-> 400 * ONE, velocity |-> CAR_SPEED_MAX,
     width |-> 150, height |-> 70, wheelRotation |-> 0]

\* carAhead of Car::update.
CarAhead(c, other) ==
    /\ other.x > c.x
    /\ other.x - c.x < FDiv(ToFloat(c.width + other.width), 2 * ONE) + 80 * ONE

\* velocity raised by CAR_ACCEL * dt, up to CAR_SPEED_MAX.
CarSpeedUp(v, dt) ==
    IF v < CAR_SPEED_MAX THEN Min(v + FMul(CAR_ACCEL, dt), CAR_SPEED_MAX) ELSE v

\* velocity lowered by CAR_BRAKE * dt, down to floor, if it is above floor.
CarSlowDown(v, dt, floor) ==
    IF v > floor THEN Max(v - FMul(CAR_BRAKE, dt), floor) ELSE v

\* The velocity Car::update gives car c.
CarVelocity(c, dt, state, other) ==
    IF CarAhead(c, other)
    THEN (IF other.velocity < c.velocity
          THEN Max(c.velocity - FMul(CAR_BRAKE, dt), other.velocity)
          ELSE c.velocity)
    ELSE IF c.x + ToFloat(c.width \div 2) >= ToFloat(STOP_LINE_X)
    THEN CarSpeedUp(c.velocity, dt)
    ELSE IF state = "LIGHT_GREEN" THEN CarSpeedUp(c.velocity, dt)
    ELSE IF state = "LIGHT_YELLOW"
    THEN CarSlowDown(c.velocity, dt, FMul(CAR_SPEED_MAX, 400000))
    ELSE CarSlowDown(c.velocity, dt, 0)

\* while (wheelRotation > 6.28318f) wheelRotation -= 6.28318f;
RECURSIVE WheelWrapped(_)
WheelWrapped(w) == IF w > 6283180 THEN WheelWrapped(w - 6283180) ELSE w

\* Car::update from `x += velocity * dt` on, with the new velocity v.
CarMoved(c, dt, v) ==
    [c EXCEPT
        !.velocity = v,
        !.x = IF c.x + FMul(v, dt) > ToFloat(TRAFFIC_WIN_W) + 100 * ONE
              THEN -100 * ONE
              ELSE c.x + FMul(v, dt),
        !.wheelRotation =
            WheelWrapped(c.wheelRotation
                + FMul(FMul(FMul(FDiv(v, FMul(FMul(2 * ONE, 3141590), 12 * ONE)),
                                 2 * ONE), 3141590), dt))]

\* Car::update(dt, light, &other).
CarUpdate(c, dt, state, other) ==
    Apply1(LAMBDA v : CarMoved(c, dt, v), CarVelocity(c, dt, state, other))

\* The ball programs have no light and no cars.
NoTraffic == << >>

\* main of TrafficSim.cpp up to the frame loop: the light on GREEN, car2
\* 250 px behind car1.
TrafficStart ==
    [light  |-> [state |-> "LIGHT_GREEN"],
     car1   |-> NewCar,
     car2   |-> [NewCar EXCEPT !.x = NewCar.x - 250 * ONE],
     cycles |-> 0]

\* The simulation state with main at p, the sub-step dt d, the balls bs and
\* the light and cars tr.
SimStartWith(p, d, bs, tr) ==
    /\ balls = bs
    /\ globalPivotY = 80 * ONE
    /\ isOpen = TRUE
    /\ pc = p
    /\ frameDt = 0
    /\ subDt = d
    /\ subStep = 0
    /\ frames = 0
    /\ events = 0
    /\ drawn = << >>
    /\ prevBalls = bs
    /\ tickInfo = [NoTick EXCEPT !.rest = { i \in {0, 1} : bs[i].angle = 0 /\ bs[i].angularVel = 0 }]
    /\ lastEvent = NoEvent
    /\ traffic = tr

\* The same with the light and the cars as main of TrafficSim.cpp makes them.
SimStart(p, d, bs) ==
    SimStartWith(p, d, bs, IF variant = "traffic" THEN TrafficStart ELSE NoTraffic)

\* main up to the frame loop: resetSimulation() on the zero-filled globals.
InitMain ==
    /\ variant \in Variants
    /\ SimStart("events", 0, resetSimulation(variant, ZeroBalls).balls)

\* ------------------------------------------------------------------------
\* SpecPixel: the two buffer operations, called in any order
\* ------------------------------------------------------------------------

MaxCalls == 2

\* Cells at and around the four edges of the grid.
ProbePoints ==
    { << -1, 0 >>, << 0, -1 >>, << WIN_W, 0 >>, << 0, WIN_H >>,
      << 0, 0 >>, << 1, 0 >>, << WIN_W - 1, WIN_H - 1 >> }

\* Colours the program draws with: ball A's base colour, the clear colour.
Palette == { << 220, 80, 50 >>, << 10, 10, 15 >> }

Alphas == { 255, 128, 0 }

NoCall == [op |-> "none", args |-> << >>]

InitRaster ==
    /\ pixelBuf = ZeroBuf
    /\ prevBuf = ZeroBuf
    /\ lastCall = NoCall
    /\ plotted = << >>
    /\ callCount = 0

ClearBufferCall(c) ==
    /\ callCount < MaxCalls
    /\ pixelBuf' = clearBuffer(c[1], c[2], c[3])
    /\ prevBuf' = pixelBuf
    /\ lastCall' = [op |-> "clearBuffer", args |-> c]
    /\ plotted' = << >>
    /\ callCount' = callCount + 1
    /\ UNCHANGED << variant, traffic, simVars >>

SetPixelCall(pt, c, a) ==
    /\ callCount < MaxCalls
    /\ pixelBuf' = setPixel(pixelBuf, pt[1], pt[2], c[1], c[2], c[3], a)
    /\ prevBuf' = pixelBuf
    /\ lastCall' = [op |-> "setPixel", args |-> << pt[1], pt[2], c[1], c[2], c[3], a >>]
    /\ plotted' = << << pt[1], pt[2], c[1], c[2], c[3], a >> >>
    /\ callCount' = callCount + 1
    /\ UNCHANGED << variant, traffic, simVars >>

InitPixel == InitMain /\ InitRaster

NextPixel ==
    \/ \E c \in Palette : ClearBufferCall(c)
    \/ \E pt \in ProbePoints, c \in Palette, a \in Alphas : SetPixelCall(pt, c, a)

SpecPixel == InitPixel /\ [][NextPixel]_vars

\* ------------------------------------------------------------------------
\* SpecBlend: setPixel on cell (0,0) holding bytes drawn from a set, with
\* colours and alphas drawn from sets
\* ------------------------------------------------------------------------

\* Colours with bytes at both ends of the range and in the middle.
BlendColours == { << 0, 0, 0 >>, << 255, 255, 255 >>, << 220, 80, 50 >>, << 1, 127, 254 >> }

BlendAlphas == { 0, 1, 127, 128, 254, 255 }

InitBlend ==
    /\ InitMain
    /\ \E c \in BlendColours, a \in BlendAlphas :
           /\ pixelBuf = PutCell(ZeroBuf, 0, 0, << c[1], c[2], c[3], a >>)
           /\ prevBuf = pixelBuf
    /\ lastCall = NoCall
    /\ plotted = << >>
    /\ callCount = 0

NextBlend == \E c \in BlendColours, a \in BlendAlphas : SetPixelCall(<< 0, 0 >>, c, a)

SpecBlend == InitBlend /\ [][NextBlend]_vars

\* ------------------------------------------------------------------------
\* SpecFrame: frames of clearBuffer followed by setPixel calls; lastCall is
\* the clearBuffer call of the frame, plotted the setPixel calls since
\* ------------------------------------------------------------------------

MaxFrameCalls == 3

\* The first two cells of row 0, the last cell, and a point off the grid.
FramePoints == { << 0, 0 >>, << 1, 0 >>, << WIN_W - 1, WIN_H - 1 >>, << -1, 0 >> }

FrameAlphas == { 255, 128 }

\* clearBuffer(c) at the start of a frame's drawing.
FrameClearCall(c) ==
    /\ callCount < MaxFrameCalls
    /\ pixelBuf' = clearBuffer(c[1], c[2], c[3])
    /\ prevBuf' = pixelBuf
    /\ lastCall' = [op |-> "clearBuffer", args |-> c]
    /\ plotted' = << >>
    /\ callCount' = callCount + 1
    /\ UNCHANGED << variant, traffic, simVars >>

\* A setPixel call of a frame's drawing.
FrameSetPixelCall(pt, c, a) ==
    /\ callCount < MaxFrameCalls
    /\ pixelBuf' = setPixel(pixelBuf, pt[1], pt[2], c[1], c[2], c[3], a)
    /\ prevBuf' = pixelBuf
    /\ plotted' = Append(plotted, PixelCall(pt, c, a))
    /\ callCount' = callCount + 1
    /\ UNCHANGED << variant, traffic, simVars, lastCall >>

NextFrame ==
    \/ \E c \in Palette : FrameClearCall(c)
    \/ \E pt \in FramePoints, c \in Palette, a \in FrameAlphas : FrameSetPixelCall(pt, c, a)

SpecFrame == InitPixel /\ [][NextFrame]_vars

\* The cells in which two buffers may differ.
TouchedCells(b1, b2) == (DOMAIN b1.cells) \cup (DOMAIN b2.cells)

\* C1: setPixel with x < 0, y < 0, x >= WIN_W or y >= WIN_H leaves every byte
\* of the buffer unchanged, for every colour and alpha; with (x, y) inside
\* the grid no cell other than (x, y) changes.
C1_SetPixelFrame ==
    lastCall.op = "setPixel" =>
        LET x == lastCall.args[1]
            y == lastCall.args[2]
        IN  IF x < 0 \/ y < 0 \/ x >= WIN_W \/ y >= WIN_H
            THEN pixelBuf = prevBuf
            ELSE /\ pixelBuf.bg = prevBuf.bg
                 /\ \A c \in TouchedCells(pixelBuf, prevBuf) \ {<< x, y >>} :
                        Cell(pixelBuf, c[1], c[2]) = Cell(prevBuf, c[1], c[2])

\* A blended write past the right edge, onto a buffer that holds a drawn cell.
C1_Witness ==
    /\ lastCall.op = "setPixel"
    /\ lastCall.args[1] >= WIN_W
    /\ lastCall.args[6] < 255
    /\ DOMAIN prevBuf.cells # {}

\* ------------------------------------------------------------------------
\* SpecRaster: one rasterizer call on the buffer as a frame has cleared it
\* ------------------------------------------------------------------------

MaxCoord == 5

MaxRadius == 5

MaxFillRadius == 3

Coords == -1..MaxCoord

\* Start points of the segments: the grid's corner, a point with end points
\* in all eight octants around it, and a point left of the grid.
LineStarts == { << 0, 0 >>, << 2, 3 >>, << -1, MaxCoord >> }

\* Centres at the grid's corner (part of the shape is clipped) and inside.
RasterCentres == { << 0, 0 >>, << 3, 3 >> }

\* The outcomes of the undefined float-to-byte cast that are modelled.
UndefBytes == { 0, 255 }

BALL_A_BASE == << 220, 80, 50 >>

BALL_A_GLOW == << 255, 120, 60 >>

STRING_COLOUR == << 100, 100, 110 >>

BALL_B_BASE == << 50, 130, 220 >>

BALL_B_GLOW == << 80, 180, 255 >>

DrawCall(name, args, calls) ==
    /\ callCount = 0
    /\ pixelBuf' = ApplyCalls(pixelBuf, calls)
    /\ prevBuf' = pixelBuf
    /\ lastCall' = [op |-> name, args |-> args]
    /\ plotted' = calls
    /\ callCount' = callCount + 1
    /\ UNCHANGED << variant, traffic, simVars >>

BresenhamLineCall(x0, y0, x1, y1) ==
    DrawCall("bresenhamLine", << x0, y0, x1, y1 >>,
             BresenhamCalls(x0, y0, x1, y1, STRING_COLOUR, 200))

MidpointCircleCall(ctr, radius) ==
    DrawCall("midpointCircle", << ctr[1], ctr[2], radius >>,
             MidpointCalls(ctr[1], ctr[2], radius, BALL_A_GLOW, 180))

ScanlineFillCircleCall(ctr, radius, ub) ==
    DrawCall("scanlineFillCircle", << ctr[1], ctr[2], radius >>,
             scanlineFillCircle(variant, ctr[1], ctr[2], radius,
                                BALL_A_BASE, BALL_A_GLOW, ub))

ScanlineGlowRingCall(ctr, radius, ub) ==
    DrawCall("scanlineGlowRing", << ctr[1], ctr[2], radius >>,
             scanlineGlowRing(variant, ctr[1], ctr[2], radius, BALL_A_GLOW, ub))

InitDraw ==
    /\ InitMain
    /\ pixelBuf = clearBuffer(10, 10, 15)
    /\ prevBuf = clearBuffer(10, 10, 15)
    /\ lastCall = NoCall
    /\ plotted = << >>
    /\ callCount = 0

NextDraw ==
    \/ \E p0 \in LineStarts, x1 \in Coords, y1 \in Coords :
           BresenhamLineCall(p0[1], p0[2], x1, y1)
    \/ \E ctr \in RasterCentres, radius \in -1..MaxRadius :
           MidpointCircleCall(ctr, radius)
    \/ \E ctr \in RasterCentres, radius \in -1..MaxFillRadius, ub \in UndefBytes :
           ScanlineFillCircleCall(ctr, radius, ub)
    \/ \E ctr \in RasterCentres, radius \in -1..MaxFillRadius, ub \in UndefBytes :
           ScanlineGlowRingCall(ctr, radius, ub)

SpecRaster == InitDraw /\ [][NextDraw]_vars

\* ------------------------------------------------------------------------
\* SpecThick: one thickLine call on a cleared buffer
\* ------------------------------------------------------------------------

MaxThickness == 3

ThickLineCall(x0, y0, x1, y1, thickness) ==
    DrawCall("thickLine", << x0, y0, x1, y1, thickness >>,
             thickLine(x0, y0, x1, y1, thickness, STRING_COLOUR, 200))

NextThick ==
    \E p0 \in LineStarts, x1 \in Coords, y1 \in Coords, thickness \in 1..MaxThickness :
        ThickLineCall(p0[1], p0[2], x1, y1, thickness)

SpecThick == InitDraw /\ [][NextThick]_vars

\* The point of the i-th setPixel call of the last draw call.
PlottedPoint(i) == << plotted[i][1], plotted[i][2] >>

\* C2: bresenhamLine terminates and the sequence of pixels it writes starts at
\* (x0,y0), ends at (x1,y1), holds no pixel twice, has every consecutive pair
\* 8-adjacent and has exactly max(|x1-x0|, |y1-y0|) + 1 pixels; coinciding
\* end points give that one pixel, and a horizontal segment gives its pixels
\* in order from the start toward the end.
C2_BresenhamPath ==
    lastCall.op = "bresenhamLine" =>
        LET x0 == lastCall.args[1]
            y0 == lastCall.args[2]
            x1 == lastCall.args[3]
            y1 == lastCall.args[4]
            n  == Len(plotted)
        IN  /\ n = Max(Abs(x1 - x0), Abs(y1 - y0)) + 1
            /\ PlottedPoint(1) = << x0, y0 >>
            /\ PlottedPoint(n) = << x1, y1 >>
            /\ \A i, j \in 1..n : i # j => PlottedPoint(i) # PlottedPoint(j)
            /\ \A i \in 1..(n - 1) :
                   /\ Abs(plotted[i + 1][1] - plotted[i][1]) <= 1
                   /\ Abs(plotted[i + 1][2] - plotted[i][2]) <= 1
            /\ (x0 = x1 /\ y0 = y1) => plotted = << PixelCall(<< x0, y0 >>, STRING_COLOUR, 200) >>
            /\ y0 = y1 =>
                   \A i \in 1..n :
                       PlottedPoint(i) = << x0 + (i - 1) * Sgn(x1 - x0), y0 >>

\* The segment (0,0)-(5,0) has been drawn, as its six pixels.
C2_Witness ==
    /\ lastCall = [op |-> "bresenhamLine", args |-> << 0, 0, 5, 0 >>]
    /\ Len(plotted) = 6
    /\ PlottedPoint(6) = << 5, 0 >>

\* The points of the recurrence x = radius, y = 0, p = 1 - radius; y++; if
\* p < 0 then p += 2y + 1 else x--, p += 2(y - x) + 1; while x >= y.
RECURSIVE C3_Recurrence(_, _, _)
C3_Recurrence(x, y, p) ==
    IF x < y THEN {}
    ELSE {<< x, y >>} \cup
         (IF p < 0 THEN C3_Recurrence(x, y + 1, p + 2 * y + 3)
          ELSE C3_Recurrence(x - 1, y + 1, p + 2 * (y - x) + 5))

C3_OctantImages(pts) ==
    UNION { { << q[1], q[2] >>, << -q[1], q[2] >>, << q[1], -q[2] >>, << -q[1], -q[2] >>,
              << q[2], q[1] >>, << -q[2], q[1] >>, << q[2], -q[1] >>, << -q[2], -q[1] >> }
            : q \in pts }

\* The offsets from the centre that the last midpointCircle call plotted.
C3_Offsets ==
    { << plotted[i][1] - lastCall.args[1], plotted[i][2] - lastCall.args[2] >>
      : i \in 1..Len(plotted) }

\* C3: for every centre and radius >= 0 the offsets midpointCircle plots are
\* closed under (dx,dy) -> (-dx,dy), (dx,-dy), (dy,dx), (-dy,-dx) and are
\* exactly the 8 octant images of the points of the recurrence; the loop
\* ends (after at most radius + 1 iterations).
C3_MidpointSymmetry ==
    (lastCall.op = "midpointCircle" /\ lastCall.args[3] >= 0) =>
        /\ \A d \in C3_Offsets :
               /\ << -d[1], d[2] >> \in C3_Offsets
               /\ << d[1], -d[2] >> \in C3_Offsets
               /\ << d[2], d[1] >> \in C3_Offsets
               /\ << -d[2], -d[1] >> \in C3_Offsets
        /\ C3_Offsets = C3_OctantImages(
               C3_Recurrence(lastCall.args[3], 0, 1 - lastCall.args[3]))
        /\ Len(plotted) <= 8 * (lastCall.args[3] + 1)

\* A circle of radius 5 has been plotted, the diagonal offset (4,3) included.
C3_Witness ==
    /\ lastCall.op = "midpointCircle"
    /\ lastCall.args[3] = 5
    /\ << 4, 3 >> \in C3_Offsets
    /\ << -3, 4 >> \in C3_Offsets

\* C4: for every radius < 1 scanlineFillCircle and scanlineGlowRing write no
\* pixel at all, in the plain variant as well as in the scaling variant.
C4_NoWriteBelowOne ==
    (lastCall.op \in {"scanlineFillCircle", "scanlineGlowRing"} /\ lastCall.args[3] < 1) =>
        (plotted = << >> /\ pixelBuf = prevBuf)

\* ------------------------------------------------------------------------
\* SpecMain: the frame loop of main, in both programs
\* ------------------------------------------------------------------------

MaxFrames == 2

MaxEvents == 2

Events == { "Closed", "MouseLeft", "MouseRight", "MouseMiddle", "KeyPressed" }

MouseButtons == { "MouseLeft", "MouseRight", "MouseMiddle" }

\* What clock.restart().asSeconds() returns: a 60 Hz frame, a stalled frame.
FrameTimes == { 16667, 100000 }

\* What randFloat() returns: (float)rand() / ((float)RAND_MAX + 1.0f) is 0
\* for rand() = 0 and rounds to 1.0f for rand() close to RAND_MAX.
RandFloats == { 0, ONE }

\* One pass of the plain program's poll loop, pollEvent giving ev.
PollEventPlain(ev) ==
    /\ variant = "plain"
    /\ pc = "events"
    /\ frames < MaxFrames
    /\ events < MaxEvents
    /\ LET doReset == ev \in MouseButtons
           rs      == resetSimulation(variant, balls)
       IN  /\ balls' = IF doReset THEN rs.balls ELSE balls
           /\ globalPivotY' = IF doReset THEN rs.globalPivotY ELSE globalPivotY
           /\ lastEvent' = [type |-> ev, reset |-> doReset, randomised |-> FALSE]
    /\ isOpen' = (isOpen /\ ev # "Closed")
    /\ prevBalls' = balls
    /\ events' = events + 1
    /\ UNCHANGED << variant, traffic, rasterVars, pc, frameDt, subDt, subStep, frames, drawn, tickInfo >>

\* One pass of the scaling program's poll loop, pollEvent giving ev and the
\* two randFloat() calls of randomiseScales giving r0 and r1.
PollEventScaling(ev, r0, r1) ==
    /\ variant = "scaling"
    /\ pc = "events"
    /\ frames < MaxFrames
    /\ events < MaxEvents
    /\ LET doRand  == ev = "MouseLeft"
           doReset == ev = "MouseRight"
           rs      == resetSimulation(variant, balls)
       IN  /\ balls' = IF doRand THEN randomiseScales(balls, r0, r1)
                       ELSE IF doReset THEN rs.balls
                       ELSE balls
           /\ globalPivotY' = IF doReset THEN rs.globalPivotY ELSE globalPivotY
           /\ lastEvent' = [type |-> ev, reset |-> doReset, randomised |-> doRand]
    /\ isOpen' = (isOpen /\ ev # "Closed")
    /\ prevBalls' = balls
    /\ events' = events + 1
    /\ UNCHANGED << variant, traffic, rasterVars, pc, frameDt, subDt, subStep, frames, drawn, tickInfo >>

\* A mutant of the frame time: dt is not capped.
ClockRestartMutNoCap(t) ==
    /\ pc = "events"
    /\ frames < MaxFrames
    /\ frameDt' = t
    /\ subDt' = FDiv(frameDt', ToFloat(SUB_STEPS))
    /\ subStep' = 0
    /\ pc' = IF variant = "scaling" THEN "scale" ELSE "physics"
    /\ lastEvent' = NoEvent
    /\ UNCHANGED << variant, traffic, rasterVars, balls, globalPivotY, isOpen, frames, events,
                    drawn, prevBalls, tickInfo >>

\* pollEvent returns false; dt = clock.restart().asSeconds(), capped at 0.05.
ClockRestart(t) ==
    /\ pc = "events"
    /\ frames < MaxFrames
    /\ frameDt' = IF t > 50000 THEN 50000 ELSE t
    /\ subDt' = FDiv(frameDt', ToFloat(SUB_STEPS))
    /\ subStep' = 0
    /\ pc' = IF variant = "scaling" THEN "scale" ELSE "physics"
    /\ lastEvent' = NoEvent
    /\ UNCHANGED << variant, traffic, rasterVars, balls, globalPivotY, isOpen, frames, events,
                    drawn, prevBalls, tickInfo >>

\* A mutant of the scale loop: only balls[0] is animated.
UpdateScalesMutOneBall ==
    /\ pc = "scale"
    /\ balls' = Pair(updateScale(balls[0], frameDt), balls[1])
    /\ prevBalls' = balls
    /\ pc' = "physics"
    /\ UNCHANGED << variant, traffic, rasterVars, globalPivotY, isOpen, frameDt, subDt, subStep,
                    frames, events, drawn, tickInfo, lastEvent >>

\* for (i < 2) balls[i].updateScale(dt);
UpdateScales ==
    /\ pc = "scale"
    /\ balls' = Pair(updateScale(balls[0], frameDt), updateScale(balls[1], frameDt))
    /\ prevBalls' = balls
    /\ pc' = "physics"
    /\ UNCHANGED << variant, traffic, rasterVars, globalPivotY, isOpen, frameDt, subDt, subStep,
                    frames, events, drawn, tickInfo, lastEvent >>

\* A mutant of the physics loop: the scale is animated in every sub-step.
PhysicsStepMutRescales ==
    /\ pc = "physics"
    /\ subStep < SUB_STEPS
    /\ \E scaled \in { IF variant = "scaling"
                        THEN Pair(updateScale(balls[0], subDt), updateScale(balls[1], subDt))
                        ELSE balls } :
           \E r \in { physicsTick(variant, scaled, subDt) } : TickTaken(r)
    /\ prevBalls' = balls
    /\ subStep' = subStep + 1
    /\ pc' = IF subStep + 1 < SUB_STEPS THEN "physics" ELSE "draw"
    /\ UNCHANGED << variant, traffic, rasterVars, globalPivotY, isOpen, frameDt, subDt, frames,
                    events, drawn, lastEvent >>

\* One iteration of for (i < SUB_STEPS) physicsTick(subDt);
PhysicsStep ==
    /\ pc = "physics"
    /\ subStep < SUB_STEPS
    /\ \E r \in { physicsTick(variant, balls, subDt) } : TickTaken(r)
    /\ prevBalls' = balls
    /\ subStep' = subStep + 1
    /\ pc' = IF subStep + 1 < SUB_STEPS THEN "physics" ELSE "draw"
    /\ UNCHANGED << variant, traffic, rasterVars, globalPivotY, isOpen, frameDt, subDt, frames,
                    events, drawn, lastEvent >>

\* A mutant of the end of the frame: the loop condition is not read.
RasterizeMutLoopsOn ==
    /\ pc = "draw"
    /\ drawn' = drawBalls(variant, balls)
    /\ frames' = frames + 1
    /\ pc' = "events"
    /\ lastCall' = [op |-> "frame", args |-> frameCalls(drawn')]
    /\ UNCHANGED << variant, traffic, pixelBuf, prevBuf, plotted, callCount, balls,
                    globalPivotY, isOpen, frameDt, subDt, subStep, events, prevBalls,
                    tickInfo, lastEvent >>

\* The rest of the frame: clearBuffer, the grid, the pivots and the strings,
\* the balls back to front by x, and the hand-over to the window (lastCall
\* keeps the calls; the pixels of a frame are the subject of SpecRaster, not
\* of this specification), then the loop condition window.isOpen() is read.
Rasterize ==
    /\ pc = "draw"
    /\ drawn' = drawBalls(variant, balls)
    /\ frames' = frames + 1
    /\ pc' = IF isOpen THEN "events" ELSE "exit"
    /\ lastCall' = [op |-> "frame", args |-> frameCalls(drawn')]
    /\ UNCHANGED << variant, traffic, pixelBuf, prevBuf, plotted, callCount, balls,
                    globalPivotY, isOpen, frameDt, subDt, subStep, events, prevBalls,
                    tickInfo, lastEvent >>

InitFrames == InitMain /\ InitRaster

NextMain ==
    \/ \E ev \in Events : PollEventPlain(ev)
    \/ \E ev \in Events :
           \E r0, r1 \in (IF ev = "MouseLeft" THEN RandFloats ELSE { 0 }) :
               PollEventScaling(ev, r0, r1)
    \/ \E t \in FrameTimes : ClockRestart(t)
    \/ UpdateScales
    \/ PhysicsStep
    \/ Rasterize

SpecMain == InitFrames /\ [][NextMain]_vars

\* main is sequential code on a running thread: a step that can be taken
\* is taken.
SpecMainFair == SpecMain /\ WF_vars(NextMain)

\* ------------------------------------------------------------------------
\* SpecTraffic: the frame loop of main in TrafficSim.cpp
\* ------------------------------------------------------------------------

MaxTrafficFrames == 2

MaxTrafficEvents == 4

TrafficEvents == { "Closed", "MouseLeft", "MouseRight", "KeyPressed" }

\* One pass of the poll loop, pollEvent giving ev, in a run of at most
\* frameLimit frames and eventLimit events.
TrafficPollEventWithin(ev, frameLimit, eventLimit) ==
    /\ variant = "traffic"
    /\ pc = "events"
    /\ frames < frameLimit
    /\ events < eventLimit
    /\ isOpen' = (isOpen /\ ev # "Closed")
    /\ traffic' = IF ev = "MouseLeft"
                  THEN [traffic EXCEPT !.light.state = cycle(@), !.cycles = @ + 1]
                  ELSE traffic
    /\ lastEvent' = [NoEvent EXCEPT !.type = ev]
    /\ events' = events + 1
    /\ UNCHANGED << variant, rasterVars, balls, globalPivotY, pc, frameDt, subDt, subStep,
                    frames, drawn, prevBalls, tickInfo >>

TrafficPollEvent(ev) == TrafficPollEventWithin(ev, MaxTrafficFrames, MaxTrafficEvents)

\* pollEvent returns false: dt, capped at 0.05, the two Car::update calls
\* (car2 sees car1 already moved), the drawing (which reads the light and
\* the cars and writes pixels only), and the loop test window.isOpen().
TrafficFrameWithin(t, frameLimit) ==
    /\ variant = "traffic"
    /\ pc = "events"
    /\ frames < frameLimit
    /\ frameDt' = IF t > 50000 THEN 50000 ELSE t
    /\ \E c1 \in { CarUpdate(traffic.car1, frameDt', traffic.light.state, traffic.car2) } :
           traffic' = [traffic EXCEPT
                          !.car1 = c1,
                          !.car2 = CarUpdate(traffic.car2, frameDt', traffic.light.state, c1)]
    /\ frames' = frames + 1
    /\ pc' = IF isOpen THEN "events" ELSE "exit"
    /\ lastEvent' = NoEvent
    /\ UNCHANGED << variant, rasterVars, balls, globalPivotY, isOpen, subDt, subStep,
                    events, drawn, prevBalls, tickInfo >>

TrafficFrame(t) == TrafficFrameWithin(t, MaxTrafficFrames)

InitTraffic ==
    /\ variant = "traffic"
    /\ InitRaster
    /\ SimStart("events", 0, ZeroBalls)

NextTraffic ==
    \/ \E ev \in TrafficEvents : TrafficPollEvent(ev)
    \/ \E t \in FrameTimes : TrafficFrame(t)

SpecTraffic == InitTraffic /\ [][NextTraffic]_vars

\* ------------------------------------------------------------------------
\* SpecCars: the frame loop of main in TrafficSim.cpp from a state the two
\* cars reach driving at full speed under GREEN, in frames of 50 ms
\* ------------------------------------------------------------------------

MaxCarFrames == 20

MaxCarClicks == 2

\* Where car1 is (px) when the run is taken up; car2 is 250 px behind.
CarStarts == { 100, 400, 640, 670 }

\* Measured frame times of a slow machine: main caps them at 0.05 s.
CarFrameTimes == { 100000 }

\* main after frames under GREEN that brought car1 to x.
TrafficDriven(x) ==
    [TrafficStart EXCEPT !.car1.x = ToFloat(x), !.car2.x = ToFloat(x) - 250 * ONE]

InitCars ==
    /\ variant = "traffic"
    /\ InitRaster
    /\ \E x \in CarStarts : SimStartWith("events", 0, ZeroBalls, TrafficDriven(x))

CarsLeftClick == TrafficPollEventWithin("MouseLeft", MaxCarFrames, MaxCarClicks)

CarsFrame == \E t \in CarFrameTimes : TrafficFrameWithin(t, MaxCarFrames)

NextCars == CarsLeftClick \/ CarsFrame

SpecCars == InitCars /\ [][NextCars]_vars

\* ------------------------------------------------------------------------
\* SpecTick: physicsTick called on balls drawn from a set of states
\* SpecRun: physicsTick called over and over from the reset state
\* ------------------------------------------------------------------------

MaxTicks == 2

MaxRunTicks == 150

\* Hanging straight down, either side of it, and B's starting angle.  With A
\* at 0.15 and B at -0.15 the two tips are 54.9 apart.
TickAngles == { 0, 150000, -150000, 600000 }

TickVels == { 0, 1500000, -1500000 }

\* subDt of a frame of no length, of a 60 Hz frame and of a capped frame.
TickDts == { 0, 2083, 6250 }

\* The ball b at angle a with angular velocity w.
TickBall(b, a, w) == updatePosition([b EXCEPT !.angle = a, !.angularVel = w])

\* physicsTick(subDt), as long as fewer than limit calls were made.
PhysicsTickCall(limit) ==
    /\ pc = "tick"
    /\ tickInfo.n < limit
    /\ \E r \in { physicsTick(variant, balls, subDt) } : TickTaken(r)
    /\ prevBalls' = balls
    /\ UNCHANGED << variant, traffic, rasterVars, globalPivotY, isOpen, pc, frameDt, subDt, subStep,
                    frames, events, drawn, lastEvent >>

InitTick ==
    /\ variant \in Variants
    /\ InitRaster
    /\ \E a0 \in TickAngles, a1 \in TickAngles, w0 \in TickVels, w1 \in TickVels, d \in TickDts :
           LET bs == resetSimulation(variant, ZeroBalls).balls
           IN  SimStart("tick", d, Pair(TickBall(bs[0], a0, w0), TickBall(bs[1], a1, w1)))

NextTick == PhysicsTickCall(MaxTicks)

SpecTick == InitTick /\ [][NextTick]_vars

\* ------------------------------------------------------------------------
\* SpecLoop: the frame loop taken up at the start of a frame, the balls
\* either as resetSimulation left them or swinging toward each other with
\* the tips 62 px apart, so that they collide within the frame
\* ------------------------------------------------------------------------

\* << angle, angularVel >> of balls[0] and of balls[1].
LoopBalls ==
    { << << -650000, 0 >>, << 600000, 0 >> >>,
      << << 140000, 1500000 >>, << -130000, -1500000 >> >> }

InitLoop ==
    /\ variant \in Variants
    /\ InitRaster
    /\ \E st \in LoopBalls :
           LET bs == resetSimulation(variant, ZeroBalls).balls
           IN  SimStart("events", 0, Pair(TickBall(bs[0], st[1][1], st[1][2]),
                                          TickBall(bs[1], st[2][1], st[2][2])))

SpecLoop == InitLoop /\ [][NextMain]_vars

\* ------------------------------------------------------------------------
\* SpecCollide: physicsTick called on balls whose tips are apart, overlap,
\* or coincide
\* ------------------------------------------------------------------------

\* Angles of balls[0] and balls[1]: the reset angles (tips 300 px apart),
\* tips about 31 px apart, and tips less than 0.001 px apart.
CollideAngles == { << -650000, 600000 >>, << 150000, -250000 >>, << 98637, -422157 >> }

InitCollide ==
    /\ variant \in Variants
    /\ InitRaster
    /\ \E a \in CollideAngles, w0 \in TickVels, w1 \in TickVels, d \in TickDts :
           LET bs == resetSimulation(variant, ZeroBalls).balls
           IN  SimStart("tick", d, Pair(TickBall(bs[0], a[1], w0), TickBall(bs[1], a[2], w1)))

NextCollide == PhysicsTickCall(MaxTicks)

SpecCollide == InitCollide /\ [][NextCollide]_vars

InitRun ==
    /\ variant \in Variants
    /\ InitRaster
    /\ SimStart("tick", FDiv(50000, ToFloat(SUB_STEPS)), resetSimulation(variant, ZeroBalls).balls)

NextRun == PhysicsTickCall(MaxRunTicks)

SpecRun == InitRun /\ [][NextRun]_vars

\* resetSimulation() called between two calls of physicsTick.
ResetSimulationCall ==
    /\ pc = "tick"
    /\ tickInfo.n < MaxTicks
    /\ \E rs \in { resetSimulation(variant, balls) } :
           /\ balls' = rs.balls
           /\ globalPivotY' = rs.globalPivotY
    /\ lastEvent' = [NoEvent EXCEPT !.reset = TRUE]
    /\ prevBalls' = balls
    /\ UNCHANGED << variant, traffic, rasterVars, isOpen, pc, frameDt, subDt, subStep, frames,
                    events, drawn, tickInfo >>

NextSim == PhysicsTickCall(MaxTicks) \/ ResetSimulationCall

\* ------------------------------------------------------------------------
\* SpecRun60: the physics of MaxRunFrames frames of 1/60 s from the reset
\* state, physicsTick by physicsTick; the loop of main goes on to the next
\* sub-step and the next frame as long as the window is open
\* ------------------------------------------------------------------------

MaxRunFrames == 180

InitRun60 ==
    /\ variant \in Variants
    /\ InitRaster
    /\ SimStart("tick", FDiv(FDiv(ONE, 60 * ONE), ToFloat(SUB_STEPS)),
                resetSimulation(variant, ZeroBalls).balls)

NextRun60 == PhysicsTickCall(SUB_STEPS * MaxRunFrames)

SpecRun60 == InitRun60 /\ [][NextRun60]_vars /\ WF_vars(NextRun60)

\* ------------------------------------------------------------------------
\* SpecScale: drawBall called on a ball of the scaling program whose
\* baseRadius and scaleFactor are drawn from sets
\* ------------------------------------------------------------------------

MaxBaseRadius == 30

BaseRadii == 1..MaxBaseRadius

\* Scale factors from SCALE_MIN to SCALE_MAX.
ScaleFactors ==
    { SCALE_MIN, 450000, 500000, 625000, 990000, ONE, 1250000, 1500000, 1990000,
      2010000, 2500000, SCALE_MAX }

\* drawBall(balls[0]).
DrawBallCall ==
    /\ pc = "ball"
    /\ drawn = << >>
    /\ drawn' = << drawBall(variant, balls[0], 0) >>
    /\ UNCHANGED << variant, traffic, rasterVars, balls, globalPivotY, isOpen, pc, frameDt, subDt,
                    subStep, frames, events, prevBalls, tickInfo, lastEvent >>

InitScale ==
    /\ variant = "scaling"
    /\ InitRaster
    /\ \E r \in BaseRadii, f \in ScaleFactors :
           LET bs == resetSimulation(variant, ZeroBalls).balls
           IN  SimStart("ball", 0,
                        Pair([bs[0] EXCEPT !.radius = r, !.scaleFactor = f, !.scaleTarget = f],
                             bs[1]))

NextScale == DrawBallCall

SpecScale == InitScale /\ [][NextScale]_vars

\* ------------------------------------------------------------------------
\* SpecLerp: updateScale(dt) called on both balls, as main's loop does, for
\* scale factors, targets and values of dt drawn from sets
\* ------------------------------------------------------------------------

MaxLerpCalls == 2

\* The ends of the clamp range, 1.0 with its two neighbours, and 1.5.
LerpScales == { SCALE_MIN, ONE - 1, ONE, ONE + 1, 1500000, SCALE_MAX }

\* dt of a frame of no length, of a 60 Hz frame and of a capped frame; and
\* 0.25 s, 0.3 s and 1 s, with which the move reaches or passes the target.
LerpDts == { 0, 16667, 50000, 250000, 300000, ONE }

\* for (i < 2) balls[i].updateScale(dt);
UpdateScaleCall(dt) ==
    /\ pc = "lerp"
    /\ frames < MaxLerpCalls
    /\ frameDt' = dt
    /\ balls' = Pair(updateScale(balls[0], dt), updateScale(balls[1], dt))
    /\ prevBalls' = balls
    /\ frames' = frames + 1
    /\ UNCHANGED << variant, traffic, rasterVars, globalPivotY, isOpen, pc, subDt, subStep,
                    events, drawn, tickInfo, lastEvent >>

\* balls[0] with scale factor f and target t, balls[1] with the two
\* exchanged.
InitLerp ==
    /\ variant = "scaling"
    /\ InitRaster
    /\ \E f \in LerpScales, t \in LerpScales :
           LET bs == resetSimulation(variant, ZeroBalls).balls
           IN  SimStart("lerp", 0,
                        Pair([bs[0] EXCEPT !.scaleFactor = f, !.scaleTarget = t],
                             [bs[1] EXCEPT !.scaleFactor = t, !.scaleTarget = f]))

NextLerp == \E dt \in LerpDts : UpdateScaleCall(dt)

SpecLerp == InitLerp /\ [][NextLerp]_vars

SpecSim == InitTick /\ [][NextSim]_vars

\* ------------------------------------------------------------------------
\* Claims about the simulation
\* ------------------------------------------------------------------------

\* What is taken as rounding error in a distance: a hundredth of a pixel.
OverlapTolerance == 10000

\* C5: after a physicsTick whose collision check found the tips overlapping
\* (0.001 < dist < minDist, minDist the sum of the two effective radii) the
\* distance between the recomputed tips is at least minDist minus a small
\* tolerance.
C5_NoResidualOverlap ==
    (tickInfo.n > 0 /\ tickInfo.overlap) =>
        TipDistance(balls) >= tickInfo.minD - OverlapTolerance

\* C6: in the scaling program, in every state at a frame boundary, after any
\* sequence of frames, randomise events and resets, scaleFactor and
\* scaleTarget of both balls lie in [SCALE_MIN, SCALE_MAX].
C6_ScaleClamp ==
    (variant = "scaling" /\ pc \in { "events", "exit" }) =>
        \A i \in { 0, 1 } :
            /\ SCALE_MIN <= balls[i].scaleFactor /\ balls[i].scaleFactor <= SCALE_MAX
            /\ SCALE_MIN <= balls[i].scaleTarget /\ balls[i].scaleTarget <= SCALE_MAX

\* A frame has ended with ball A part of the way to the largest scale and
\* ball B part of the way to the smallest.
C6_Witness ==
    /\ variant = "scaling"
    /\ pc = "events"
    /\ frames >= 1
    /\ lastEvent = NoEvent
    /\ balls[0].scaleTarget = SCALE_MAX
    /\ balls[0].scaleFactor > ONE
    /\ balls[0].scaleFactor < SCALE_MAX
    /\ balls[1].scaleTarget = SCALE_MIN
    /\ balls[1].scaleFactor < ONE

\* C7: resetSimulation, called after any sequence of frames, sub-steps and
\* scale changes, leaves both balls in exactly the state of the initial
\* reset (angles -0.65 and 0.60, angular velocity 0, lengths 220 and 240,
\* scale 1.0, tips recomputed), and a second call changes nothing.
C7_ResetReinitialises ==
    lastEvent.reset =>
        /\ balls = resetSimulation(variant, ZeroBalls).balls
        /\ globalPivotY = resetSimulation(variant, ZeroBalls).globalPivotY
        /\ balls[0].angle = -650000 /\ balls[1].angle = 600000
        /\ balls[0].length = 220 * ONE /\ balls[1].length = 240 * ONE
        /\ \A i \in { 0, 1 } :
               /\ balls[i].angularVel = 0
               /\ variant = "scaling" =>
                      (balls[i].scaleFactor = ONE /\ balls[i].scaleTarget = ONE)
               /\ balls[i] = updatePosition(balls[i])
        /\ resetSimulation(variant, balls).balls = balls
        /\ resetSimulation(variant, balls).globalPivotY = globalPivotY

\* A reset of balls that had moved, ball A with a scale other than 1.
C7_Witness ==
    /\ lastEvent.reset
    /\ frames >= 1
    /\ prevBalls[0].angularVel # 0
    /\ prevBalls[0].angle # -650000
    /\ prevBalls[0].scaleFactor > ONE
    /\ prevBalls[0].scaleTarget = SCALE_MAX
    /\ balls # prevBalls

\* C8: a ball with angle = 0 and angularVel = 0 that receives no collision
\* impulse still has angle = 0 and angularVel = 0 after any number of
\* sub-steps, for any dt.
C8_RestStaysAtRest ==
    \A i \in { 0, 1 } :
        /\ (tickInfo.n > 0 /\ ~tickInfo.impulse
              /\ prevBalls[i].angle = 0 /\ prevBalls[i].angularVel = 0)
               => (balls[i].angle = 0 /\ balls[i].angularVel = 0)
        /\ (i \in tickInfo.rest /\ tickInfo.hits = 0)
               => (balls[i].angle = 0 /\ balls[i].angularVel = 0)

\* Ball A started at rest and is at rest after MaxTicks sub-steps of a
\* positive dt in which ball B swung.
C8_Witness ==
    /\ pc = "tick"
    /\ tickInfo.n >= MaxTicks
    /\ tickInfo.hits = 0
    /\ 0 \in tickInfo.rest
    /\ subDt > 0
    /\ balls[0].angle = 0
    /\ balls[0].angularVel = 0
    /\ balls[1].angularVel # 0
    /\ balls[1].angle # prevBalls[1].angle

\* C9: in a sub-step with zero driving torque (sin(angle) = 0) and no
\* collision impulse, the magnitude of a ball's angularVel after the
\* sub-step is not larger than before it.
C9_DampingMonotone ==
    \A i \in { 0, 1 } :
        (tickInfo.n > 0 /\ ~tickInfo.impulse /\ Sin(prevBalls[i].angle) = 0)
            => Abs(balls[i].angularVel) <= Abs(prevBalls[i].angularVel)

\* A sub-step has taken ball A through the bottom with a velocity that the
\* damping made smaller.
C9_Witness ==
    /\ pc = "tick"
    /\ tickInfo.n > 0
    /\ ~tickInfo.impulse
    /\ Sin(prevBalls[0].angle) = 0
    /\ prevBalls[0].angularVel # 0
    /\ Abs(balls[0].angularVel) < Abs(prevBalls[0].angularVel)

\* C10: in the plain program an event invokes resetSimulation exactly when
\* it is a press of the left button; in the scaling program a left press
\* only gives both balls new scaleTarget values and leaves angle,
\* angularVel, scaleFactor, pivot and length of both balls unchanged.
C10_PrimaryPress ==
    /\ (variant = "plain" /\ lastEvent.type # "none")
           => (lastEvent.reset <=> lastEvent.type = "MouseLeft")
    /\ (variant = "scaling" /\ lastEvent.type = "MouseLeft")
           => /\ ~lastEvent.reset
              /\ lastEvent.randomised
              /\ \A i \in { 0, 1 } :
                     balls[i] = [prevBalls[i] EXCEPT !.scaleTarget = balls[i].scaleTarget]

\* C11: the frame loop ends only through the Closed event: main leaves the
\* loop only with the window closed, and only at the end of an iteration
\* that ran its 8 sub-steps and its drawing; once the window is closed it
\* stays closed, no further iteration begins and the loop is left; as long
\* as it is open, the loop goes on to the next frame (here, up to MaxFrames).
C11_EndsOnlyOnClosed ==
    /\ [](pc = "exit" => ~isOpen)
    /\ [](pc = "draw" => subStep = SUB_STEPS)
    /\ [][pc' = "exit" => (pc = "draw" /\ frames' = frames + 1)]_vars
    /\ [][~isOpen => (~isOpen' /\ ~(pc = "draw" /\ pc' = "events"))]_vars
    /\ [][(isOpen /\ pc = "draw") => pc' = "events"]_vars
    /\ (~isOpen ~> pc = "exit")
    /\ <>(pc = "exit" \/ frames = MaxFrames)
    /\ []((isOpen /\ frames < MaxFrames) => <>(~isOpen \/ frames = MaxFrames))

\* The window was closed in the second frame's poll loop and main has left
\* the loop after finishing that frame.
C11_Witness ==
    /\ pc = "exit"
    /\ ~isOpen
    /\ frames = MaxFrames
    /\ subStep = SUB_STEPS
    /\ tickInfo.n = SUB_STEPS * MaxFrames

\* C12: after every resetSimulation and every physicsTick, whether or not
\* the tick resolved a collision, the stored tip of each ball is its pivot
\* plus length * (sin(angle), cos(angle)) for the angle the ball now has.
C12_TipConsistent ==
    \A i \in { 0, 1 } :
        /\ balls[i].x = balls[i].pivotX + FMul(balls[i].length, Sin(balls[i].angle))
        /\ balls[i].y = balls[i].pivotY + FMul(balls[i].length, Cos(balls[i].angle))

\* A tick has resolved a collision, turning both angles, and a later tick
\* found the balls out of reach.
C12_Witness ==
    /\ tickInfo.n = MaxTicks
    /\ tickInfo.hits >= 1
    /\ ~tickInfo.overlap
    /\ balls[0].angle # prevBalls[0].angle
    /\ balls[1].angle # prevBalls[1].angle
    /\ C12_TipConsistent

\* Values of baseRadius and scaleFactor, inside and outside what the program
\* assigns: 1/28 is the scale at which 28 * scaleFactor reaches 1.
RadiusValues == { -3, 0, 1, 2, BALL_RADIUS, 100 }

ScaleValues ==
    { -SCALE_MAX, -ONE, -1, 0, 1, 35714, 35715, SCALE_MIN, ONE - 1, ONE, SCALE_MAX, 20 * ONE }

\* C13: scaledRadius is at least 1 for every baseRadius and scaleFactor, so
\* in every reachable state the collision distance minD of the last
\* physicsTick is at least 2 and every radius drawBall passed to the fill,
\* the glow ring and the outline is at least 1.
C13_RadiusAtLeastOne ==
    /\ \A r \in RadiusValues, f \in ScaleValues :
           scaledRadius([ZeroBall EXCEPT !.radius = r, !.scaleFactor = f]) >= 1
    /\ \A i \in { 0, 1 } : scaledRadius(balls[i]) >= 1
    /\ tickInfo.n > 0 => tickInfo.minD >= 2 * ONE
    /\ \A k \in 1..Len(drawn) :
           drawn[k].fill >= 1 /\ drawn[k].outline >= 1 /\ drawn[k].glow >= 1

\* A frame of the scaling program has collided and drawn ball B with a
\* radius below its base radius; and the floor of scaledRadius is what makes
\* the radius 1 at scale 0.
C13_Witness ==
    /\ variant = "scaling"
    /\ pc = "events"
    /\ frames >= 1
    /\ tickInfo.minD < ToFloat(2 * BALL_RADIUS)
    /\ \E k \in 1..Len(drawn) :
           drawn[k].ball = 1 /\ drawn[k].fill < BALL_RADIUS /\ drawn[k].fill >= 1
    /\ ToInt(FMul(ToFloat(BALL_RADIUS), 0)) = 0
    /\ scaledRadius([ZeroBall EXCEPT !.radius = BALL_RADIUS, !.scaleFactor = 0]) = 1

\* The integer part and the nearest integer of baseRadius * scaleFactor for
\* ball b, from the exact product of the int and the scale.
ExactRadius(b) == (b.radius * b.scaleFactor) \div ONE

NearestRadius(b) == (b.radius * b.scaleFactor + (ONE \div 2)) \div ONE

\* C14 (as the code has it): for every baseRadius >= 1 and every scaleFactor
\* in [SCALE_MIN, SCALE_MAX], scaledRadius() is baseRadius * scaleFactor
\* truncated to its integer part, floored at 1.
C14_TruncatedRadius ==
    drawn # << >> => drawn[1].fill = Max(1, ExactRadius(balls[0]))

\* C14 (as stated): scaledRadius() is baseRadius * scaleFactor rounded to
\* the nearest integer, floored at 1.
C14_RoundedRadius ==
    drawn # << >> => drawn[1].fill = Max(1, NearestRadius(balls[0]))

\* drawBall has drawn the ball of base radius 28 at SCALE_MAX with radius
\* 72, the integer part of 72.8.
C14_Witness ==
    /\ drawn # << >>
    /\ balls[0].radius = BALL_RADIUS
    /\ balls[0].scaleFactor = SCALE_MAX
    /\ drawn[1].fill = 72
    /\ NearestRadius(balls[0]) = 73

\* The radius drawBall call number k of the last frame gave ball i, 0 if
\* that call drew the other ball.
DrawnRadius(i, k) == IF drawn[k].ball = i THEN drawn[k].fill ELSE 0

\* C15: in a frame of the scaling program every sub-step's collision test
\* uses, for minD, the scaled radii of the balls as they are when the
\* sub-step begins, no sub-step changes a scaleFactor, and the drawing that
\* ends the frame changes no ball and draws each ball with that same scaled
\* radius: the radii of the 8 collision tests are the radii drawn.
C15_RadiusSharedInFrame ==
    [][ /\ (variant = "scaling" /\ pc = "physics") =>
              /\ tickInfo'.minD = ToFloat(scaledRadius(balls[0]) + scaledRadius(balls[1]))
              /\ \A i \in { 0, 1 } : balls'[i].scaleFactor = balls[i].scaleFactor
              /\ \A i \in { 0, 1 } : balls'[i].radius = balls[i].radius
        /\ (variant = "scaling" /\ pc = "draw") =>
              /\ balls' = balls
              /\ Len(drawn') = 2
              /\ \A i \in { 0, 1 } :
                     DrawnRadius(i, 1)' + DrawnRadius(i, 2)' = scaledRadius(balls[i])
              /\ tickInfo.minD = ToFloat(drawn'[1].fill + drawn'[2].fill)
      ]_vars

\* A frame of the scaling program has been drawn while ball A was still
\* growing toward SCALE_MAX: its drawn radius is above the base radius and
\* the last collision test used the sum of the two drawn radii.
C15_Witness ==
    /\ variant = "scaling"
    /\ pc = "events"
    /\ frames >= 1
    /\ tickInfo.n = SUB_STEPS * frames
    /\ balls[0].scaleTarget = SCALE_MAX
    /\ balls[0].scaleFactor < SCALE_MAX
    /\ DrawnRadius(0, 1) + DrawnRadius(0, 2) > BALL_RADIUS
    /\ tickInfo.minD = ToFloat(drawn[1].fill + drawn[2].fill)

\* C16: from the reset state, in frames of 1/60 s of 8 sub-steps each, a
\* sub-step applies the collision resolution (once) if the tips overlap in it
\* and applies none if they do not; the tips come to overlap, and whenever
\* they overlap they are later out of reach of each other again; and neither
\* angular velocity ever exceeds 2 rad/s in magnitude.
C16_CollisionRun ==
    /\ [](tickInfo.n > 0 => (tickInfo.overlap <=> tickInfo.impulse))
    /\ [][tickInfo'.hits = tickInfo.hits + (IF tickInfo'.overlap THEN 1 ELSE 0)]_vars
    /\ [][(~tickInfo'.overlap) => balls' = Pair(Integrate(balls[0], subDt),
                                                Integrate(balls[1], subDt))]_vars
    /\ <>(tickInfo.overlap /\ TipDistance(prevBalls) >= tickInfo.minD)
    /\ [](tickInfo.overlap => <>(~tickInfo.overlap /\ TipDistance(balls) >= tickInfo.minD))
    /\ [](\A i \in { 0, 1 } : Abs(balls[i].angularVel) <= 2 * ONE)

\* The run has reached its last sub-step after two collisions, each
\* resolved in the sub-step it happened in, and the tips are apart.
C16_Witness ==
    /\ tickInfo.n = SUB_STEPS * MaxRunFrames
    /\ tickInfo.hits = 2
    /\ ~tickInfo.overlap
    /\ TipDistance(balls) > tickInfo.minD
    /\ subDt = 2083

\* (0.9 + 0.7 * 0.3)^8, the specular term where nz = 1 and diffuse = 0.7.
CentreSpec == Square(Square(Square(900000 + FMul(700000, 300000))))

\* 0.12 + 0.49 + spec * 0.5 for that specular term.
CentreShade == 120000 + 490000 + FMul(CentreSpec, 500000)

\* base * shade with no rim term, each channel capped at 255.
PlainColour(base, shade) ==
    << ToInt(Min(FMul(ToFloat(base[1]), shade), ToFloat(255))),
       ToInt(Min(FMul(ToFloat(base[2]), shade), ToFloat(255))),
       ToInt(Min(FMul(ToFloat(base[3]), shade), ToFloat(255))) >>

\* The last call was scanlineFillCircle with a radius of at least 1.
FilledCircle == lastCall.op = "scanlineFillCircle" /\ lastCall.args[3] >= 1

\* The terms of the shading at the centre of the circle last filled.
CentrePixel ==
    ShadePixel(0, 0, FDiv(ONE, ToFloat(lastCall.args[3])), BALL_A_BASE, BALL_A_GLOW)

\* The centre pixel of the circle last filled was written once, opaque,
\* with colour c.
CentreWritten(c) ==
    /\ \E i \in 1..Len(plotted) : PlottedPoint(i) = << lastCall.args[1], lastCall.args[2] >>
    /\ \A i \in 1..Len(plotted) :
           PlottedPoint(i) = << lastCall.args[1], lastCall.args[2] >> =>
               plotted[i] = PixelCall(PlottedPoint(i), c, 255)

\* C17 (as the code has it): at the centre of a filled circle nz = 1,
\* diffuse = 0.7, spec = (0.9 + 0.7 * 0.3)^8 and the rim term is 0; the
\* shade is 0.12 + 0.49 + spec * 0.5 capped at 1.4, which is 1.4, and the
\* colour written is baseColor * 1.4 with each channel capped at 255.
C17_CentreShadeCapped ==
    FilledCircle =>
        /\ CentrePixel.nz = ONE
        /\ CentrePixel.diff = 700000
        /\ CentrePixel.spec = CentreSpec
        /\ CentrePixel.rim = 0
        /\ CentrePixel.shade = Min(CentreShade, 1400000)
        /\ CentrePixel.shade = 1400000
        /\ CentreWritten(PlainColour(BALL_A_BASE, 1400000))

\* C17 (as stated): the shade at the centre is 0.12 + 0.49 + spec * 0.5 and
\* the colour written is baseColor times that, each channel capped at 255.
C17_CentreShade ==
    FilledCircle =>
        /\ CentrePixel.diff = 700000
        /\ CentrePixel.spec = CentreSpec
        /\ CentrePixel.shade = CentreShade
        /\ CentreWritten(PlainColour(BALL_A_BASE, CentreShade))

\* The circle of radius 3 around (3,3) has been filled: its centre holds
\* (255, 112, 70), which is (220, 80, 50) * 1.4 capped, where the uncapped
\* shade of about 1.76 would give (255, 140, 88).
C17_Witness ==
    /\ FilledCircle
    /\ lastCall.args = << 3, 3, 3 >>
    /\ Cell(pixelBuf, 3, 3) = << 255, 112, 70, 255 >>
    /\ PlainColour(BALL_A_BASE, CentreShade) = << 255, 140, 88 >>
    /\ CentreShade > 1400000

\* The terms of the shading of the pixel of the i-th setPixel call of the
\* circle last filled.
PlottedShade(i) ==
    ShadePixel(ToFloat(plotted[i][1] - lastCall.args[1]),
               ToFloat(plotted[i][2] - lastCall.args[2]),
               FDiv(ONE, ToFloat(lastCall.args[3])), BALL_A_BASE, BALL_A_GLOW)

\* nx * LIGHT_LX + ny * LIGHT_LY for that pixel: how far its direction from
\* the centre points toward the light.
PlottedLight(i) ==
    FMul(FMul(ToFloat(plotted[i][1] - lastCall.args[1]),
              FDiv(ONE, ToFloat(lastCall.args[3]))), LIGHT_LX)
    + FMul(FMul(ToFloat(plotted[i][2] - lastCall.args[2]),
                FDiv(ONE, ToFloat(lastCall.args[3]))), LIGHT_LY)

\* The i-th setPixel call of the circle last filled is on the silhouette.
OnSilhouette(i) == PlottedShade(i).dist = ONE /\ PlottedShade(i).nz = 0

\* 0.12 * base + glow * 0.30, channel by channel.
RimColour(base, glow) ==
    << ToInt(FMul(ToFloat(base[1]), 120000) + FMul(ToFloat(glow[1]), 300000)),
       ToInt(FMul(ToFloat(base[2]), 120000) + FMul(ToFloat(glow[2]), 300000)),
       ToInt(FMul(ToFloat(base[3]), 120000) + FMul(ToFloat(glow[3]), 300000)) >>

\* C18 (as the code has it): for a pixel on the silhouette of a filled
\* circle (normalised distance 1, nz = 0) the diffuse term is
\* nx * LIGHT_LX + ny * LIGHT_LY clamped at 0 and the specular term is
\* (0.3 * diffuse)^8: both are 0, and the colour is 0.12 * baseColor plus
\* glowColor * 0.30, where the pixel faces away from the light; where it
\* faces the light the diffuse term is positive and the colour carries it.
C18_SilhouetteLitSide ==
    FilledCircle =>
        \A i \in 1..Len(plotted) :
            OnSilhouette(i) =>
                /\ PlottedShade(i).rim = ONE
                /\ PlottedShade(i).diff = ClampLow(PlottedLight(i))
                /\ PlottedShade(i).spec
                       = Square(Square(Square(FMul(PlottedShade(i).diff, 300000))))
                /\ PlottedLight(i) <= 0 =>
                       /\ PlottedShade(i).diff = 0
                       /\ PlottedShade(i).spec = 0
                       /\ plotted[i] = PixelCall(PlottedPoint(i),
                                                 RimColour(BALL_A_BASE, BALL_A_GLOW), 255)
                /\ PlottedLight(i) > 0 =>
                       /\ PlottedShade(i).diff > 0
                       /\ plotted[i][3] > RimColour(BALL_A_BASE, BALL_A_GLOW)[1]

\* C18 (as stated): for every pixel on the silhouette of a filled circle,
\* whatever its direction from the centre, the diffuse and the specular
\* term are 0 and the colour is 0.12 * baseColor plus glowColor * 0.30.
C18_SilhouetteUnlit ==
    FilledCircle =>
        \A i \in 1..Len(plotted) :
            OnSilhouette(i) =>
                /\ PlottedShade(i).diff = 0
                /\ PlottedShade(i).spec = 0
                /\ plotted[i] = PixelCall(PlottedPoint(i),
                                          RimColour(BALL_A_BASE, BALL_A_GLOW), 255)

\* The circle of radius 2 around (3,3) has been filled: its rightmost
\* pixel (5,3), facing away from the light, holds the rim colour
\* (102, 45, 24), and its leftmost pixel (1,3), facing the light, is
\* brighter.
C18_Witness ==
    /\ FilledCircle
    /\ lastCall.args = << 3, 3, 2 >>
    /\ \E i \in 1..Len(plotted) :
           PlottedPoint(i) = << 5, 3 >> /\ OnSilhouette(i) /\ PlottedLight(i) <= 0
    /\ \E i \in 1..Len(plotted) :
           PlottedPoint(i) = << 1, 3 >> /\ OnSilhouette(i) /\ PlottedShade(i).diff > 500000
    /\ Cell(pixelBuf, 5, 3) = << 102, 45, 24, 255 >>
    /\ Cell(pixelBuf, 1, 3)[1] > 102

\* The buffer whose every cell is (c, 255), after the setPixel calls in
\* calls.
FreshFrame(c, calls) ==
    ApplyCalls([bg |-> << c[1], c[2], c[3], 255 >>, cells |-> [p \in {} |-> << >>]], calls)

\* C19: right after clearBuffer(r, g, b) every cell of the buffer is
\* (r, g, b, 255), whatever it held before; and after the setPixel calls
\* that follow in the frame the buffer is the one these calls produce from
\* cells that are all (r, g, b, 255): nothing written before the clear is
\* left in it.
C19_ClearOverwrites ==
    lastCall.op = "clearBuffer" =>
        /\ pixelBuf = FreshFrame(lastCall.args, plotted)
        /\ plotted = << >> =>
               /\ pixelBuf.cells = << >>
               /\ \A pt \in FramePoints \cup TouchedCells(prevBuf, pixelBuf) :
                      InGrid(pt[1], pt[2]) =>
                          Cell(pixelBuf, pt[1], pt[2])
                              = << lastCall.args[1], lastCall.args[2], lastCall.args[3], 255 >>
        /\ \A pt \in FramePoints :
               (InGrid(pt[1], pt[2]) /\ \A i \in 1..Len(plotted) : PlottedPoint(i) # pt) =>
                   Cell(pixelBuf, pt[1], pt[2])
                       = << lastCall.args[1], lastCall.args[2], lastCall.args[3], 255 >>

\* clearBuffer(10, 10, 15) has run on a buffer in which two setPixel calls
\* had coloured cell (0,0) and the last cell: both hold (10, 10, 15, 255)
\* now.
C19_Witness ==
    /\ lastCall = [op |-> "clearBuffer", args |-> << 10, 10, 15 >>]
    /\ callCount = MaxFrameCalls
    /\ plotted = << >>
    /\ Cell(prevBuf, 0, 0) = << 220, 80, 50, 255 >>
    /\ Cell(prevBuf, WIN_W - 1, WIN_H - 1) = << 220, 80, 50, 255 >>
    /\ Cell(pixelBuf, 0, 0) = << 10, 10, 15, 255 >>
    /\ Cell(pixelBuf, WIN_W - 1, WIN_H - 1) = << 10, 10, 15, 255 >>

\* The state of the light after n calls of cycle from state s.
RECURSIVE CycledFrom(_, _)
CycledFrom(s, n) == IF n = 0 THEN s ELSE cycle(CycledFrom(s, n - 1))

\* C20: the light starts GREEN; a step changes it only if it is the
\* handling of a left click, and every left click handled moves it one step
\* in the order GREEN, YELLOW, RED, GREEN; three steps bring every state
\* back to itself, so the light is where the number of left clicks modulo 3
\* puts it; frames, the movement of the cars and other events leave it as
\* it is.
C20_LightCycles ==
    /\ []((frames = 0 /\ events = 0) => traffic.light.state = "LIGHT_GREEN")
    /\ [](traffic.light.state \in LightStates)
    /\ [](\A st \in LightStates : cycle(st) # st /\ cycle(cycle(cycle(st))) = st)
    /\ [](cycle("LIGHT_GREEN") = "LIGHT_YELLOW" /\ cycle("LIGHT_YELLOW") = "LIGHT_RED"
              /\ cycle("LIGHT_RED") = "LIGHT_GREEN")
    /\ [](traffic.light.state = CycledFrom("LIGHT_GREEN", traffic.cycles % 3))
    /\ [][ /\ traffic'.light.state # traffic.light.state =>
                  (pc = "events" /\ events' = events + 1 /\ lastEvent'.type = "MouseLeft")
           /\ (events' = events + 1 /\ lastEvent'.type = "MouseLeft") =>
                  (traffic'.light.state = cycle(traffic.light.state)
                       /\ traffic'.cycles = traffic.cycles + 1)
           /\ (events' = events + 1 /\ lastEvent'.type # "MouseLeft") => traffic' = traffic
           /\ frames' # frames => traffic'.light = traffic.light
         ]_vars

\* Three left clicks and a right click have been handled and a frame has
\* moved the cars: the light is GREEN again.
C20_Witness ==
    /\ variant = "traffic"
    /\ traffic.cycles = 3
    /\ events = MaxTrafficEvents
    /\ frames >= 1
    /\ traffic.car1.x > TrafficStart.car1.x
    /\ traffic.light.state = "LIGHT_GREEN"

\* The x of the front of car c: x + width / 2, the division an integer one.
CarFront(c) == c.x + ToFloat(c.width \div 2)

\* C21: in a step in which the light is RED before and after, a car whose
\* front is before the stop line does not have its front past STOP_LINE_X
\* afterwards, and if its velocity is 0 it is 0 afterwards; for car1 and
\* for car2.
C21_StopsAtRed ==
    [][\A k \in { "car1", "car2" } :
          (/\ traffic.light.state = "LIGHT_RED"
           /\ traffic'.light.state = "LIGHT_RED"
           /\ CarFront(traffic[k]) < ToFloat(STOP_LINE_X))
          => /\ CarFront(traffic'[k]) <= ToFloat(STOP_LINE_X)
             /\ traffic[k].velocity = 0 => traffic'[k].velocity = 0]_vars

\* The balls as step 1 of the last physicsTick left them.
Moved == Pair(Integrate(prevBalls[0], subDt), Integrate(prevBalls[1], subDt))

\* relVn of physicsTick for the balls bs, dist apart (dist not 0).
RelVn(bs, dist) ==
    LET A == bs[0]
        B == bs[1]
        nx == FDiv(B.x - A.x, dist)
        ny == FDiv(B.y - A.y, dist)
        vAx == FMul(FMul(A.angularVel, A.length), Cos(A.angle))
        vAy == FMul(FMul(-A.angularVel, A.length), Sin(A.angle))
        vBx == FMul(FMul(B.angularVel, B.length), Cos(B.angle))
        vBy == FMul(FMul(-B.angularVel, B.length), Sin(B.angle))
    IN  FMul(vAx - vBx, nx) + FMul(vAy - vBy, ny)

\* dist < minDist, dist > 0.001 and relVn > 0 all hold for the balls bs.
Colliding(bs, minD) ==
    /\ TipDistance(bs) < minD
    /\ TipDistance(bs) > 1000
    /\ RelVn(bs, TipDistance(bs)) > 0

\* C22: after every physicsTick, the balls differ from what the
\* integration stage left only if dist < minDist, dist > 0.001 and
\* relVn > 0 all held for these; if one of the three failed (tips apart,
\* tip distance degenerate, bodies separating or tangent) the balls are
\* exactly what the integration left; and the branch that divides by dist
\* was entered only with dist > 0.001.
C22_CollisionGuard ==
    tickInfo.n > 0 =>
        /\ tickInfo.minD = ToFloat(CollisionRadius(variant, Moved[0])
                                       + CollisionRadius(variant, Moved[1]))
        /\ balls # Moved => Colliding(Moved, tickInfo.minD)
        /\ ~Colliding(Moved, tickInfo.minD) => balls = Moved
        /\ tickInfo.impulse <=> Colliding(Moved, tickInfo.minD)
        /\ tickInfo.overlap <=>
               (TipDistance(Moved) < tickInfo.minD /\ TipDistance(Moved) > 1000)
        /\ tickInfo.overlap => TipDistance(Moved) > 1000

\* physicsTick has run with dt = 0 on balls turning toward each other whose
\* tips are less than 0.001 px apart: it left the balls as the integration
\* made them.
C22_Witness ==
    /\ tickInfo.n = 1
    /\ prevBalls[0].angularVel > 0
    /\ prevBalls[1].angularVel < 0
    /\ TipDistance(Moved) <= 1000
    /\ TipDistance(Moved) < tickInfo.minD
    /\ ~tickInfo.overlap
    /\ balls = Moved

\* The scaleFactor of the two balls bs.
ScaleFactorsOf(bs) == << bs[0].scaleFactor, bs[1].scaleFactor >>

\* C23 (as the code has it): in the scaling program every frame drains the
\* events, takes dt capped at 50 ms, runs the scale animator once for each
\* ball, then the 8 physics sub-steps with dt / 8, then draws and hands
\* over the frame: the animator runs before the sub-steps of its frame,
\* which do not change scaleFactor, so that they and the drawing use the
\* scale of this frame.
C23_ScaleBeforePhysics ==
    [][variant = "scaling" =>
          /\ pc = "events" =>
                 \/ pc' = "events" /\ events' = events + 1 /\ tickInfo' = tickInfo
                 \/ /\ pc' = "scale"
                    /\ frameDt' <= 50000
                    /\ subDt' = FDiv(frameDt', ToFloat(SUB_STEPS))
                    /\ balls' = balls
          /\ pc = "scale" =>
                 /\ pc' = "physics"
                 /\ tickInfo.n = SUB_STEPS * frames
                 /\ tickInfo' = tickInfo
                 /\ balls' = Pair(updateScale(balls[0], frameDt), updateScale(balls[1], frameDt))
          /\ pc = "physics" =>
                 /\ tickInfo'.n = tickInfo.n + 1
                 /\ balls' = physicsTick(variant, balls, subDt).balls
                 /\ ScaleFactorsOf(balls') = ScaleFactorsOf(balls)
                 /\ pc' = IF tickInfo'.n = SUB_STEPS * (frames + 1) THEN "draw" ELSE "physics"
          /\ pc = "draw" =>
                 /\ tickInfo.n = SUB_STEPS * (frames + 1)
                 /\ balls' = balls
                 /\ drawn' = drawBalls(variant, balls)
                 /\ frames' = frames + 1
                 /\ pc' \in { "events", "exit" }
          /\ pc # "events" => events' = events
      ]_vars

\* C23 (as stated): the scale animator runs after the 8 physics sub-steps
\* of the same frame: when it is about to run in a frame, the sub-steps of
\* that frame have run.
C23_ScaleAfterPhysics ==
    (variant = "scaling" /\ pc = "scale") => tickInfo.n = SUB_STEPS * (frames + 1)

\* The first frame of the scaling program after a left click has run its
\* animator and its 8 sub-steps and is about to draw: the scale factors
\* have left 1.0 and the last sub-step tested the tips against the sum of
\* the radii at these scale factors.
C23_Witness ==
    /\ variant = "scaling"
    /\ pc = "draw"
    /\ frames = 0
    /\ tickInfo.n = SUB_STEPS
    /\ balls[0].scaleFactor # ONE
    /\ balls[1].scaleFactor # ONE
    /\ tickInfo.minD = ToFloat(scaledRadius(balls[0]) + scaledRadius(balls[1]))
    /\ tickInfo.minD # ToFloat(2 * BALL_RADIUS)

\* C24: every frame runs physicsTick exactly SUB_STEPS = 8 times (the
\* number of calls made is 8 for each frame completed, plus the sub-steps
\* of the current frame), each with subDt = dt / 8 of the frame's dt, which
\* is at most 0.05 s, so that the 8 sub-steps of a frame advance the
\* simulation by at most 50 ms; and a physicsTick integrates both balls and
\* then runs the collision check once, on the two integrated balls.
C24_EightSubSteps ==
    /\ [](SUB_STEPS = 8)
    /\ [](/\ frameDt >= 0 /\ frameDt <= 50000
          /\ subDt = FDiv(frameDt, ToFloat(SUB_STEPS))
          /\ SUB_STEPS * subDt <= 50000)
    /\ [](/\ pc \in { "events", "scale", "exit" } => tickInfo.n = SUB_STEPS * frames
          /\ pc = "physics" => (subStep < SUB_STEPS /\ tickInfo.n = SUB_STEPS * frames + subStep)
          /\ pc = "draw" => tickInfo.n = SUB_STEPS * (frames + 1))
    /\ [][/\ tickInfo'.n # tickInfo.n =>
                 /\ pc = "physics"
                 /\ tickInfo'.n = tickInfo.n + 1
                 /\ subDt' = subDt
                 /\ balls' = Collide(variant, Pair(Integrate(balls[0], subDt),
                                                   Integrate(balls[1], subDt))).balls
          /\ frames' # frames => (frames' = frames + 1 /\ tickInfo.n = SUB_STEPS * frames')
         ]_vars

\* Two frames have run their physics, the second with a measured time above
\* 0.05 s: 16 calls of physicsTick were made, the last 8 with 0.05 / 8.
C24_Witness ==
    /\ pc = "draw"
    /\ frames = 1
    /\ tickInfo.n = 2 * SUB_STEPS
    /\ frameDt = 50000
    /\ subDt = 6250
    /\ balls # prevBalls

\* diff * SCALE_LERP * dt of the last updateScale call on balls[i].
LastMove(i) ==
    FMul(FMul(prevBalls[i].scaleTarget - prevBalls[i].scaleFactor, SCALE_LERP), frameDt)

\* C25: after updateScale(dt), dt >= 0, the scaleFactor of a ball lies
\* between the old scaleFactor and scaleTarget, both included; the gap to
\* the target has not grown; a move that reaches or passes the target
\* leaves scaleFactor equal to scaleTarget, a smaller one is added to the
\* old scaleFactor; a scaleFactor equal to scaleTarget stays; and
\* scaleTarget is not changed.
C25_LerpNeverOvershoots ==
    frames > 0 =>
        \A i \in { 0, 1 } :
            LET old == prevBalls[i].scaleFactor
                tgt == prevBalls[i].scaleTarget
                new == balls[i].scaleFactor
            IN  /\ frameDt >= 0
                /\ balls[i].scaleTarget = tgt
                /\ Min(old, tgt) <= new /\ new <= Max(old, tgt)
                /\ Abs(tgt - new) <= Abs(tgt - old)
                /\ Abs(LastMove(i)) >= Abs(tgt - old) => new = tgt
                /\ Abs(LastMove(i)) < Abs(tgt - old) => new = old + LastMove(i)
                /\ old = tgt => new = old
                /\ balls[i] = [prevBalls[i] EXCEPT !.scaleFactor = new]

\* balls[0] went from 0.4 to 0.84 toward the target 2.6 in a call with
\* dt = 0.05, and a call with dt = 1 has then set it to 2.6; balls[1] went
\* the other way.
C25_Witness ==
    /\ frames = 2
    /\ frameDt = ONE
    /\ prevBalls[0].scaleFactor = 840000
    /\ prevBalls[0].scaleTarget = SCALE_MAX
    /\ balls[0].scaleFactor = SCALE_MAX
    /\ prevBalls[1].scaleFactor = 2160000
    /\ balls[1].scaleFactor = SCALE_MIN

\* The x of the setPixel calls of the last draw call on scanline y.
RowXs(y) == { plotted[i][1] : i \in { j \in 1..Len(plotted) : plotted[j][2] = y } }

\* C26: for a filled circle of radius >= 1, on every scanline the pixels
\* written form an inclusive range of x symmetric about cx, and every pixel
\* written satisfies (x-cx)^2 + (y-cy)^2 <= radius^2.
C26_FillInsideDisc ==
    FilledCircle =>
        LET cx == lastCall.args[1]
            cy == lastCall.args[2]
            radius == lastCall.args[3]
        IN  /\ \A i \in 1..Len(plotted) :
                   (plotted[i][1] - cx) * (plotted[i][1] - cx)
                       + (plotted[i][2] - cy) * (plotted[i][2] - cy) <= radius * radius
            /\ \A y \in (cy - radius)..(cy + radius) :
                   /\ \A x \in RowXs(y) : 2 * cx - x \in RowXs(y)
                   /\ \A x1 \in RowXs(y), x2 \in RowXs(y) : x1..x2 \subseteq RowXs(y)

\* How far from 0 the rounded product of the perpendicular and the
\* direction may be: 0.00001.
PerpTolerance == 10

\* The y of the setPixel calls of the last draw call.
RowsWritten == { plotted[i][2] : i \in 1..Len(plotted) }

\* C27: thickLine with coinciding end points issues the one call
\* setPixel(x0, y0) and nothing else; otherwise, thickness >= 1, it makes
\* exactly thickness bresenhamLine calls, for offsets along the
\* perpendicular unit vector that are 1 apart and centred on zero
\* (-1, 0, +1 for thickness 3), and its setPixel calls are those of these
\* calls; a horizontal segment at row y drawn with thickness 3 covers
\* exactly the rows y-1, y and y+1, each from one end's x to the other's.
C27_ThickLinePasses ==
    lastCall.op = "thickLine" =>
        LET x0 == lastCall.args[1]
            y0 == lastCall.args[2]
            x1 == lastCall.args[3]
            y1 == lastCall.args[4]
            th == lastCall.args[5]
            offs == ThickOffsets(th)
            ps == thickLinePasses(x0, y0, x1, y1, th)
        IN  IF x0 = x1 /\ y0 = y1
            THEN /\ plotted = << PixelCall(<< x0, y0 >>, STRING_COLOUR, 200) >>
                 /\ ps = << >>
            ELSE /\ Len(ps) = th
                 /\ Len(offs) = th
                 /\ \A k \in 1..(th - 1) : offs[k + 1] - offs[k] = ONE
                 /\ \A k \in 1..th : offs[k] = -offs[th + 1 - k]
                 /\ th = 3 => offs = << -ONE, 0, ONE >>
                 /\ Abs(FMul(ThickPerp(x0, y0, x1, y1)[1], ToFloat(x1 - x0))
                         + FMul(ThickPerp(x0, y0, x1, y1)[2], ToFloat(y1 - y0))) <= PerpTolerance
                 /\ \A k \in 1..th :
                        ps[k] = ThickPass(x0, y0, x1, y1, ThickPerp(x0, y0, x1, y1), offs[k])
                 /\ plotted = PassCalls(ps, 1, STRING_COLOUR, 200)
                 /\ (y0 = y1 /\ th = 3) =>
                        /\ RowsWritten = { y0 - 1, y0, y0 + 1 }
                        /\ \A y \in RowsWritten : RowXs(y) = Min(x0, x1)..Max(x0, x1)
                        /\ Len(plotted) = 3 * (Abs(x1 - x0) + 1)

\* thickLine(2, 3, 5, 3, 3) has drawn the rows 2, 3 and 4 from x = 2 to
\* x = 5.
C27_Witness ==
    /\ lastCall = [op |-> "thickLine", args |-> << 2, 3, 5, 3, 3 >>]
    /\ Len(plotted) = 12
    /\ RowsWritten = { 2, 3, 4 }
    /\ \A y \in { 2, 3, 4 } : \A x \in 2..5 : Cell(pixelBuf, x, y) # Cell(prevBuf, x, y)
    /\ Cell(pixelBuf, 2, 1) = Cell(prevBuf, 2, 1)
    /\ Cell(pixelBuf, 2, 5) = Cell(prevBuf, 2, 5)

\* C28: an in-bounds setPixel with alpha 255 leaves (src, 255) in the cell;
\* with alpha < 255, fa = alpha / 255 and fb = dst_alpha / 255 * (1 - fa),
\* each colour byte is src * fa + dst * fb truncated and the alpha byte is
\* (fa + fb) * 255 truncated; these truncated values are in 0..255, so the
\* 8-bit store does not wrap; and a cell that was fully opaque is fully
\* opaque afterwards.
C28_BlendInRange ==
    (lastCall.op = "setPixel" /\ InGrid(lastCall.args[1], lastCall.args[2])) =>
        LET dst == Cell(prevBuf, lastCall.args[1], lastCall.args[2])
            new == Cell(pixelBuf, lastCall.args[1], lastCall.args[2])
            src == << lastCall.args[3], lastCall.args[4], lastCall.args[5] >>
            a   == lastCall.args[6]
            fa  == FDiv(ToFloat(a), ToFloat(255))
            fb  == FMul(FDiv(ToFloat(dst[4]), ToFloat(255)), ONE - fa)
        IN  /\ a = 255 => new = << src[1], src[2], src[3], 255 >>
            /\ a < 255 =>
                   /\ \A k \in 1..3 :
                          new[k] = ToInt(FMul(ToFloat(src[k]), fa) + FMul(ToFloat(dst[k]), fb))
                   /\ new[4] = ToInt(FMul(fa + fb, ToFloat(255)))
            /\ \A k \in 1..4 : new[k] \in 0..255
            /\ dst[4] = 255 => new[4] = 255

\* White has been blended with alpha 128 onto an opaque white cell: the
\* cell is opaque white.
C28_Witness ==
    /\ lastCall = [op |-> "setPixel", args |-> << 0, 0, 255, 255, 255, 128 >>]
    /\ Cell(prevBuf, 0, 0) = << 255, 255, 255, 255 >>
    /\ Cell(pixelBuf, 0, 0) = << 255, 255, 255, 255 >>

\* The cells of the buffer after scanlineFillCircle for ball A at (3,3) and
\* then for ball B at (4,3), both of radius 2, hold what the calls for ball
\* B wrote, wherever these went: a fill writes with alpha 255.
LaterFillWins ==
    LET first  == scanlineFillCircle("plain", 3, 3, 2, BALL_A_BASE, BALL_A_GLOW, 0)
        second == scanlineFillCircle("plain", 4, 3, 2, BALL_B_BASE, BALL_B_GLOW, 0)
        buf    == ApplyCalls(clearBuffer(10, 10, 15), first \o second)
    IN  /\ \E i \in 1..Len(first), k \in 1..Len(second) :
               first[i][1] = second[k][1] /\ first[i][2] = second[k][2]
        /\ \A k \in 1..Len(second) :
               Cell(buf, second[k][1], second[k][2])
                   = << second[k][3], second[k][4], second[k][5], 255 >>

\* C29: the drawing part of every frame is clearBuffer, the grid, the
\* pivots, the strings, two drawBall calls, one for each ball, and then the
\* hand-over to the display; the ball drawn first is the one with the
\* smaller tip x (ball 1 when the two are equal); and the fill of the ball
\* drawn second replaces the pixels of the first where the two overlap.
C29_DrawOrder ==
    /\ [][pc = "draw" =>
              LET cs == lastCall'.args
              IN  /\ lastCall'.op = "frame"
                  /\ Len(cs) = 7
                  /\ << cs[1].op, cs[2].op, cs[3].op, cs[4].op >>
                         = << "clearBuffer", "drawGrid", "drawPivots", "drawStrings" >>
                  /\ cs[5].op = "drawBall" /\ cs[6].op = "drawBall"
                  /\ { cs[5].arg[1], cs[6].arg[1] } = { 0, 1 }
                  /\ cs[7].op = "display"
                  /\ balls[cs[5].arg[1]].x <= balls[cs[6].arg[1]].x
                  /\ balls[0].x < balls[1].x => cs[5].arg[1] = 0
                  /\ balls[1].x <= balls[0].x => cs[5].arg[1] = 1
                  /\ Len(drawn') = 2
                  /\ \A k \in 1..2 :
                         drawn'[k] = drawBall(variant, balls[cs[4 + k].arg[1]], cs[4 + k].arg[1])
                  /\ frames' = frames + 1
          ]_vars
    /\ []LaterFillWins

\* The second frame has been drawn after its 8 sub-steps: ball 0, whose tip
\* is left of that of ball 1, was drawn first.
C29_Witness ==
    /\ lastCall.op = "frame"
    /\ frames = 2
    /\ tickInfo.n = 2 * SUB_STEPS
    /\ balls[0].x < balls[1].x
    /\ drawn[1].ball = 0 /\ drawn[2].ball = 1
    /\ lastCall.args[5] = FrameCall("drawBall", << 0 >>)
    /\ lastCall.args[6] = FrameCall("drawBall", << 1 >>)

\* The fields of a ball that only resetSimulation assigns.
Frozen(b) == << b.pivotX, b.pivotY, b.length, b.radius, b.base, b.glow >>

\* The ball b without what physicsTick assigns.
LessMotion(b) == [b EXCEPT !.angle = 0, !.angularVel = 0, !.x = 0, !.y = 0]

\* C30: a step that is not a reset leaves pivot, length, base radius, base
\* colour and glow colour of both balls as they are; a physicsTick,
\* whether it ends at the overlap test, at the test of relVn or with the
\* impulse, changes only angle, angularVel and the tip; the scale animator
\* changes only scaleFactor; randomiseScales changes only scaleTarget; and
\* the other events, the frame time and the drawing change no field.
C30_ImmutableBetweenResets ==
    [][LET isEvent == events' = events + 1
           isReset == isEvent /\ lastEvent'.reset
       IN  /\ ~isReset => \A i \in { 0, 1 } : Frozen(balls'[i]) = Frozen(balls[i])
           /\ pc = "physics" => \A i \in { 0, 1 } : LessMotion(balls'[i]) = LessMotion(balls[i])
           /\ pc = "scale" =>
                  \A i \in { 0, 1 } :
                      balls'[i] = [balls[i] EXCEPT !.scaleFactor = balls'[i].scaleFactor]
           /\ (isEvent /\ lastEvent'.randomised) =>
                  \A i \in { 0, 1 } :
                      balls'[i] = [balls[i] EXCEPT !.scaleTarget = balls'[i].scaleTarget]
           /\ (isEvent /\ ~lastEvent'.reset /\ ~lastEvent'.randomised) => balls' = balls
           /\ (pc = "draw" \/ (pc = "events" /\ ~isEvent)) => balls' = balls
      ]_vars

\* The scaling program, after a left click, has animated the scale and run
\* the 8 sub-steps of a frame, one of which applied the collision impulse:
\* the fields that only resetSimulation assigns are those it assigned.
C30_Witness ==
    /\ variant = "scaling"
    /\ pc = "draw"
    /\ tickInfo.hits >= 1
    /\ tickInfo.n = SUB_STEPS
    /\ balls[0].scaleFactor # ONE
    /\ balls[0].scaleTarget # ONE
    /\ \A i \in { 0, 1 } :
           Frozen(balls[i]) = Frozen(resetSimulation(variant, ZeroBalls).balls[i])
====
